---- MODULE Spec2Model ----
(***************************************************************************)
(* Syncrules sync core: the cross-process file lock (internal/lock) and    *)
(* the sync run of the service layer (internal/service), as state          *)
(* machines.                                                               *)
(*                                                                         *)
(* The lock file is one path in a shared directory.  Every system call of  *)
(* FileLock.Acquire and FileLock.Release on that path is one step, so the  *)
(* calls of distinct FileLock instances interleave between system calls    *)
(* as they do between processes and goroutines.  A file that was created   *)
(* but not yet written reads as empty and fails to parse.  A write through *)
(* a descriptor whose file was unlinked in the meantime is not visible at  *)
(* the path (Unix semantics).  The file system itself does not fail: an    *)
(* operation errs only for the reason its state gives (the path is absent  *)
(* or present).                                                            *)
(*                                                                         *)
(* Time is counted in units of 30 minutes (DefaultStaleTimeout is one      *)
(* unit).  time.Now() has nanosecond resolution: distinct instances never  *)
(* draw the same instant, which the model keeps by the ns part of a        *)
(* StartTime.                                                              *)
(***************************************************************************)
EXTENDS Integers, Sequences, FiniteSets, TLC

VARIABLES
    \* ---- lock directory and FileLock instances
    file,          \* the lock file at lockPath: absent, empty, or a LockInfo
    fd,            \* per instance: the descriptor it holds open for writing
    pc,            \* per instance: position inside Acquire / Release
    info,          \* per instance: FileLock.info (NoInfo is nil)
    staleTimeout,  \* per instance: FileLock.staleTimeout
    arg,           \* per instance: ruleName argument of the running Acquire
    newInfo,       \* per instance: the LockInfo the running Acquire will write
    result,        \* per instance: what the last finished call returned
    alive,         \* per process: processExists
    now,           \* the clock
    \* ---- history variables (read by the properties only)
    pre,           \* per instance: what the lock file was when its current call began
    touched,       \* per instance: another instance changed the path during its call
    renamed,       \* per instance: it re-acquired under a new rule name since it acquired
    \* ---- one sync run of the daemon (syncRunner.RunSync on FileLock instance 1)
    rpc,           \* position of the run inside RunSync / PlanSync / ExecuteSync
    plan,          \* plan.Actions of the run
    k,             \* number of loop iterations of ExecuteSync completed
    err,           \* the error the run is returning (NoErr is nil)
    cancelled,     \* ctx.Done() is closed
    runs,          \* scheduler ticks so far
    record,        \* Status of the last ExecutionRecord saved
    \* ---- history of the run (read by the properties only)
    listed,        \* the endpoint trees listed so far in this run
    started,       \* the actions executeAction was called on, in call order
    finished,      \* the outcome of each executeAction call that returned
    \* ---- the two endpoints of a rule, planned and synchronised (no lock)
    srcTree,       \* the source endpoint: path -> entry
    tgtTree,       \* the target endpoint: path -> entry
    rule,          \* the SyncRule: mode, ignore patterns, conflict strategy
    sPlan,         \* the actions of the plan being executed, in order
    sIdx,          \* number of actions of sPlan that have been executed
    sErr,          \* the error that aborted the execution ("" is nil)
    sPhase,        \* "off", "new", "planned", "done", "failed" or "replanned"
    rePlan,        \* the actions of the plan made after the execution
    reMode,        \* the mode of that second planning
    \* ---- history of the synchronisation (read by the properties only)
    srcListed,     \* the listing of the source the plan was made from
    tgtListed,     \* the listing of the target the plan was made from
    vanished,      \* the path another program removed after planning
    sStats,        \* SyncPlan.Stats and SyncPlan.Conflicts of the plan
    \* ---- the comparer and the resolver applied to two file descriptors
    cSrc,          \* the source descriptor (NoFile is nil)
    cTgt,          \* the target descriptor (NoFile is nil)
    cStrategy,     \* the conflict strategy
    cDiff,         \* what Compare returned
    cAction,       \* what Resolve returned
    cPhase,        \* "off", "new", "compared" or "resolved"
    \* ---- the interval scheduler
    running,       \* IntervalScheduler.running
    stopped,       \* IntervalScheduler.stopped
    stopOnce,      \* stopOnce has run its function
    closeOnce,     \* closeOnce: "new", "running" or "done"
    stopChan,      \* "open" or "closed"
    stoppedChan,   \* "open" or "closed"
    stats,         \* totalRuns, successfulRuns, failedRuns, lastError
    cfgRules,      \* config.Rules
    ctxDone,       \* the context passed to Start is cancelled
    lpc,           \* per goroutine of run: where it is
    idx,           \* per goroutine: position of executeSync in rules
    hasError,      \* per goroutine: hasError of executeSync
    tickReady,     \* per goroutine: a tick waits in ticker.C
    cpc,           \* per calling thread: where its Stop is
    ret,           \* per calling thread: what its last call returned
    fired,         \* history: how often a ticker has fired
    batch,         \* history, per goroutine: the runner calls of its tick
    ticks,         \* history: ticks taken from the ticker, completed, without and with error
    lastBatch,     \* history: the runner calls of the last completed tick
    stopReturned,  \* history: a Stop has returned nil
    fault,         \* history: a closed channel was closed again
    midStop,       \* history, per thread: its Stop was called during a tick
    \* ---- the progress reporter
    rmu,           \* CallbackReporter.mu: the thread that holds it, or 0
    rstack,        \* per thread: its calls into the reporter, innermost last
    rep,           \* filesTotal, currentTotal, currentBytes, filesCompleted
    \* the daemon's runner (syncRunner.RunSync) and the execution history
    enabled,       \* config.GetEnabledRules(): the names of the enabled rules
    hpc,           \* position of the call of RunSync
    hlist,         \* rules: the rules the call goes through
    hi,            \* position of the range loop in rules
    hrec,          \* record: the ExecutionRecord of the rule at hand
    herrs,         \* len(errors)
    hret,          \* what the last call of RunSync returned
    hcalls,        \* the calls of RunSync so far
    history,       \* the rows of the executions table, oldest first
    attempted,     \* history: the rules attempted, with how PlanSync and
                   \* ExecuteSync ended
    \* the PID file and the processes that call PIDFile.Write on it
    pfile,         \* the file: NoPidFile, EmptyPidFile or the pid it holds
    ppc,           \* per process: position inside Write
    pret,          \* per process: what its Write returned
    \* the daemon service over its scheduler
    dmu,           \* d.mu: 0, or the thread that holds it
    dSched,        \* d.scheduler != nil
    dpc,           \* per thread: position inside DaemonService.Stop
    dret,          \* per thread: what its last Start or Stop returned
    dseen,         \* per thread: Running of its last Status
    dStarts        \* the schedulers made so far

lockVars == <<file, fd, pc, info, staleTimeout, arg, newInfo, result, alive, now>>
histVars == <<pre, touched, renamed>>
runVars == <<rpc, plan, k, err, cancelled, runs, record>>
runHist == <<listed, started, finished>>
execVars == <<runVars, runHist>>
syncVars == <<srcTree, tgtTree, rule, sPlan, sIdx, sErr, sPhase, rePlan, reMode>>
syncHist == <<srcListed, tgtListed, vanished>>
planStats == <<sStats>>
treeVars == <<syncVars, syncHist, planStats>>
pureVars == <<cSrc, cTgt, cStrategy, cDiff, cAction, cPhase>>
schedState == <<running, stopped, stopOnce, closeOnce, stopChan, stoppedChan,
                stats, cfgRules, ctxDone>>
loopVars == <<lpc, idx, hasError, tickReady>>
callVars == <<cpc, ret>>
schedHist == <<fired, batch, ticks, lastBatch, stopReturned, fault>>
stopHist == <<midStop>>
schedVars == <<schedState, loopVars, callVars, schedHist, stopHist>>
repVars == <<rmu, rstack, rep>>
runnerVars == <<enabled, hpc, hlist, hi, hrec, herrs, hret, hcalls, history, attempted>>
pidVars == <<pfile, ppc, pret>>
dmnVars == <<dmu, dSched, dpc, dret, dseen, dStarts>>
postRunner == <<pidVars, dmnVars>>
postRep == <<runnerVars, postRunner>>
lastVars == <<repVars, postRep>>
untilRunner == <<lockVars, histVars, execVars, treeVars, pureVars, schedVars, repVars>>
untilPid == <<untilRunner, runnerVars>>
besideDaemon == <<lockVars, histVars, execVars, treeVars, pureVars, repVars,
                  runnerVars, pidVars>>
aftVars == <<pureVars, schedVars, lastVars>>
vars == <<lockVars, histVars, execVars, treeVars, aftVars>>

\* ------------------------------------------------------------------ bounds

MaxTime == 2
MaxActions == 2
MaxRuns == 2
MaxMTime == 1
MaxTicks == 2
MaxLoops == 2
MaxCallers == 2
MaxThreads == 2
MaxDepth == 2
MaxFiles == 1
MaxWriters == 3
MaxStarts == 2

\* ------------------------------------------------------------ the program

DefaultStaleTimeout == 1

LocalHost == "local"
ForeignHost == "foreign"

\* two FileLock values on one lock directory, each in a process of its own
Instances == {1, 2}
Procs == {1, 2}
ProcOf(i) == i
\* the process that may exit in the middle of anything
Crashable == {2}
RuleNames == {"a", "b"}
StaleTimeouts == {0, DefaultStaleTimeout}
\* instance 1 is driven with every rule name and stale timeout; instance 2
\* competes with it under one rule name and the default timeout
RulesOf(i) == IF i = 1 THEN RuleNames ELSE {"a"}
Configurable == {1}

\* LockInfo, and the two other shapes the content of the path can have; the ns
\* part of an empty file names the instance that created or truncated it
MkInfo(p, h, t, n, r) ==
    [kind |-> "info", pid |-> p, host |-> h, start |-> [t |-> t, ns |-> n], rule |-> r]
MkEmpty(n) ==
    [kind |-> "empty", pid |-> 0, host |-> "", start |-> [t |-> 0, ns |-> n], rule |-> ""]
Absent == [kind |-> "absent", pid |-> 0, host |-> "", start |-> [t |-> 0, ns |-> 0], rule |-> ""]
NoInfo == Absent

\* a lock left by a process of this host that has exited (pid 0 never exists),
\* and a lock written from another host
DeadLocalInfo == MkInfo(0, LocalHost, 0, 0, "a")
ForeignInfo == MkInfo(1, ForeignHost, 0, 0, "a")

\* what a call returned; iso is history: the call began on a stale lock ("dead",
\* "expired") or on the caller's own lock ("held", "reheld") and no other
\* instance changed the path while it ran
NoResult == [op |-> "none", status |-> "none", holder |-> NoInfo, iso |-> "none"]
Res(op, status, holder) == [op |-> op, status |-> status, holder |-> holder, iso |-> "none"]

processExists(pid) == pid \in Procs /\ alive[pid]

\* readLockInfo: err (FALSE) when the path is absent or does not parse
readOk(f) == f.kind = "info"

isStaleByAge(i, f) == now - f.start.t > staleTimeout[i]
isStale(i, f) ==
    IF f.host = LocalHost
    THEN ~processExists(f.pid)
    ELSE now - f.start.t > staleTimeout[i]

isHeldByCurrentProcess(i, f) == f.pid = ProcOf(i) /\ f.host = LocalHost

isHeldByThisInstance(i, f) ==
    /\ info[i] # NoInfo
    /\ isHeldByCurrentProcess(i, f)
    /\ info[i].start = f.start
    /\ info[i].rule = f.rule

Running(i) == alive[ProcOf(i)]

\* os.Remove / a create at the path: every descriptor open on the old file
\* now refers to an unlinked file
Unlinked == [j \in Instances |-> IF fd[j] = "linked" THEN "unlinked" ELSE fd[j]]

\* ------------------------------------------------------- history helpers

\* the file at the path was created (or last truncated) by instance i
OwnedBy(f, i) == f.kind \in {"info", "empty"} /\ f.start.ns = i

\* the holder recorded in f is a process of this host that has exited
HolderDead(f) ==
    f.kind = "info" /\ f.host = LocalHost /\ ~(f.pid \in Procs /\ alive[f.pid])

\* f was written on another host longer ago than instance i's stale timeout
HolderExpired(i, f) ==
    f.kind = "info" /\ f.host # LocalHost /\ now - f.start.t > staleTimeout[i]

PreKind(i) ==
    IF OwnedBy(file, i) /\ file.kind = "info" THEN (IF renamed[i] THEN "reheld" ELSE "held")
    ELSE IF HolderDead(file) THEN "dead"
    ELSE IF HolderExpired(i, file) THEN "expired"
    ELSE "other"

\* touched after a step of instance i: when the step changed the path, every
\* other instance inside a call saw it; when it ended i's call, i starts afresh
Touch(i, changed, ends) ==
    [j \in Instances |->
        IF j = i THEN (IF ends THEN FALSE ELSE touched[j])
        ELSE IF changed /\ pc[j] # "idle" THEN TRUE ELSE touched[j]]

\* ------------------------------------------------------- calls (clients)

Done(i, r) ==
    /\ pc' = [pc EXCEPT ![i] = "idle"]
    /\ result' = [result EXCEPT ![i] =
                     [r EXCEPT !.iso = IF touched[i] THEN "none" ELSE pre[i]]]
    /\ arg' = [arg EXCEPT ![i] = ""]
    /\ newInfo' = [newInfo EXCEPT ![i] = NoInfo]
    /\ pre' = [pre EXCEPT ![i] = "none"]

\* a caller enters Acquire(ruleName): the first test, l.info != nil, is local
EnterAcquire(i, r) ==
    /\ Running(i) /\ pc[i] = "idle"
    /\ pc' = [pc EXCEPT ![i] = IF info[i] # NoInfo THEN "acq_held" ELSE "acq_read"]
    /\ arg' = [arg EXCEPT ![i] = r]
    /\ result' = [result EXCEPT ![i] = NoResult]
    /\ pre' = [pre EXCEPT ![i] = PreKind(i)]
    /\ touched' = [touched EXCEPT ![i] = FALSE]
    /\ UNCHANGED <<file, fd, info, staleTimeout, newInfo, alive, now, renamed>>

EnterRelease(i) ==
    /\ Running(i) /\ pc[i] = "idle"
    /\ pc' = [pc EXCEPT ![i] = "rel_read"]
    /\ result' = [result EXCEPT ![i] = NoResult]
    /\ pre' = [pre EXCEPT ![i] = PreKind(i)]
    /\ touched' = [touched EXCEPT ![i] = FALSE]
    /\ UNCHANGED <<file, fd, info, staleTimeout, arg, newInfo, alive, now, renamed>>

\* the calls of a client that is not the sync run
CallAcquire(i, r) == EnterAcquire(i, r) /\ UNCHANGED <<execVars, treeVars, aftVars>>
CallRelease(i) == EnterRelease(i) /\ UNCHANGED <<execVars, treeVars, aftVars>>

SetStaleTimeout(i, d) ==
    /\ Running(i) /\ pc[i] = "idle" /\ staleTimeout[i] # d
    /\ staleTimeout' = [staleTimeout EXCEPT ![i] = d]
    /\ UNCHANGED <<file, fd, pc, info, arg, newInfo, result, alive, now, histVars>>
    /\ UNCHANGED <<execVars, treeVars, aftVars>>

\* ------------------------------------------------------ FileLock.Acquire

\* already holding: re-read the file; update the rule name in place when it is ours
AcquireCheckHeld(i) ==
    /\ Running(i) /\ pc[i] = "acq_held"
    /\ IF readOk(file) /\ isHeldByThisInstance(i, file)
       THEN /\ newInfo' = [newInfo EXCEPT ![i] = [file EXCEPT !.rule = arg[i]]]
            /\ pc' = [pc EXCEPT ![i] = "acq_trunc"]
       ELSE /\ pc' = [pc EXCEPT ![i] = "acq_read"]
            /\ UNCHANGED newInfo
    /\ UNCHANGED <<file, fd, info, staleTimeout, arg, result, alive, now, histVars>>
    /\ UNCHANGED <<execVars, treeVars, aftVars>>

\* writeLockInfo, os.WriteFile: open with O_CREATE|O_TRUNC ...
AcquireWriteOpen(i) ==
    /\ Running(i) /\ pc[i] = "acq_trunc"
    /\ file' = MkEmpty(i)
    /\ fd' = [fd EXCEPT ![i] = "linked"]
    /\ touched' = Touch(i, TRUE, FALSE)
    /\ pc' = [pc EXCEPT ![i] = "acq_wdata"]
    /\ UNCHANGED <<info, staleTimeout, arg, newInfo, result, alive, now, pre, renamed>>
    /\ UNCHANGED <<execVars, treeVars, aftVars>>

\* the rule name the handle keeps after a re-acquisition
UpdatedHandleStale(i) == info[i]
UpdatedHandle(i) == [info[i] EXCEPT !.rule = arg[i]]

\* ... write and close; then l.info.RuleName = ruleName
AcquireWriteData(i) ==
    /\ Running(i) /\ pc[i] = "acq_wdata"
    /\ file' = IF fd[i] = "linked" THEN newInfo[i] ELSE file
    /\ touched' = Touch(i, fd[i] = "linked", TRUE)
    /\ fd' = [fd EXCEPT ![i] = "none"]
    /\ info' = [info EXCEPT ![i] = UpdatedHandle(i)]
    /\ renamed' = [renamed EXCEPT ![i] = renamed[i] \/ arg[i] # info[i].rule]
    /\ Done(i, Res("acquire", "ok", NoInfo))
    /\ UNCHANGED <<staleTimeout, alive, now>>
    /\ UNCHANGED <<execVars, treeVars, aftVars>>

\* the outcome of the check of an existing lock: "remove" or "busy"
CheckExistingKeep(i, f) == "busy"
CheckExisting(i, f) == IF isStale(i, f) THEN "remove" ELSE "busy"

\* check for an existing lock
AcquireRead(i) ==
    /\ Running(i) /\ pc[i] = "acq_read"
    /\ IF readOk(file)
       THEN IF CheckExisting(i, file) = "remove"
            THEN /\ pc' = [pc EXCEPT ![i] = "acq_remove"]
                 /\ UNCHANGED <<result, arg, newInfo, pre>>
            ELSE Done(i, Res("acquire", "busy", file))
       ELSE /\ pc' = [pc EXCEPT ![i] = "acq_create"]
            /\ UNCHANGED <<result, arg, newInfo, pre>>
    /\ touched' = Touch(i, FALSE, pc'[i] = "idle")
    /\ UNCHANGED <<file, fd, info, staleTimeout, alive, now, renamed>>
    /\ UNCHANGED <<execVars, treeVars, aftVars>>

\* os.Remove of the stale lock
AcquireRemoveStale(i) ==
    /\ Running(i) /\ pc[i] = "acq_remove"
    /\ IF file = Absent
       THEN /\ Done(i, Res("acquire", "remove_error", NoInfo))
            /\ touched' = Touch(i, FALSE, TRUE)
            /\ UNCHANGED <<file, fd>>
       ELSE /\ file' = Absent
            /\ fd' = Unlinked
            /\ touched' = Touch(i, TRUE, FALSE)
            /\ pc' = [pc EXCEPT ![i] = "acq_create"]
            /\ UNCHANGED <<result, arg, newInfo, pre>>
    /\ UNCHANGED <<info, staleTimeout, alive, now, renamed>>
    /\ UNCHANGED <<execVars, treeVars, aftVars>>

\* build the LockInfo, then os.OpenFile with O_CREATE|O_EXCL
AcquireCreate(i) ==
    /\ Running(i) /\ pc[i] = "acq_create"
    /\ newInfo' = [newInfo EXCEPT ![i] = MkInfo(ProcOf(i), LocalHost, now, i, arg[i])]
    /\ IF file # Absent
       THEN /\ pc' = [pc EXCEPT ![i] = "acq_exist"]
            /\ UNCHANGED <<file, fd, touched>>
       ELSE /\ file' = MkEmpty(i)
            /\ fd' = [fd EXCEPT ![i] = "linked"]
            /\ touched' = Touch(i, TRUE, FALSE)
            /\ pc' = [pc EXCEPT ![i] = "acq_encode"]
    /\ UNCHANGED <<info, staleTimeout, arg, result, alive, now, pre, renamed>>
    /\ UNCHANGED <<execVars, treeVars, aftVars>>

\* the error of a create that found the path taken
ExistResult(f) ==
    IF readOk(f) THEN Res("acquire", "busy", f) ELSE Res("acquire", "race_error", NoInfo)

\* os.IsExist: read the holder for the LockError
AcquireExistRead(i) ==
    /\ Running(i) /\ pc[i] = "acq_exist"
    /\ Done(i, ExistResult(file))
    /\ touched' = Touch(i, FALSE, TRUE)
    /\ UNCHANGED <<file, fd, info, staleTimeout, alive, now, renamed>>
    /\ UNCHANGED <<execVars, treeVars, aftVars>>

\* encoder.Encode(info) into the created file, close, l.info = info
AcquireEncode(i) ==
    /\ Running(i) /\ pc[i] = "acq_encode"
    /\ file' = IF fd[i] = "linked" THEN newInfo[i] ELSE file
    /\ touched' = Touch(i, fd[i] = "linked", TRUE)
    /\ fd' = [fd EXCEPT ![i] = "none"]
    /\ info' = [info EXCEPT ![i] = newInfo[i]]
    /\ renamed' = [renamed EXCEPT ![i] = FALSE]
    /\ Done(i, Res("acquire", "ok", NoInfo))
    /\ UNCHANGED <<staleTimeout, alive, now>>
    /\ UNCHANGED <<execVars, treeVars, aftVars>>

\* ------------------------------------------------------ FileLock.Release

\* what Release decides from the file it read: "noop", "gone", "stolen", "remove"
ReleaseDecision(i, f) ==
    IF info[i] = NoInfo THEN "noop"
    ELSE IF ~readOk(f) THEN "gone"
    ELSE IF ~isHeldByThisInstance(i, f) THEN "stolen"
    ELSE "remove"

\* nothing held; or read the file and verify that it is still ours
ReleaseRead(i) ==
    /\ Running(i) /\ pc[i] = "rel_read"
    /\ LET d == ReleaseDecision(i, file) IN
       IF d = "remove"
       THEN /\ pc' = [pc EXCEPT ![i] = "rel_remove"]
            /\ UNCHANGED <<info, result, arg, newInfo, pre, renamed>>
       ELSE /\ info' = [info EXCEPT ![i] = NoInfo]
            /\ renamed' = [renamed EXCEPT ![i] = FALSE]
            /\ Done(i, Res("release", IF d = "stolen" THEN "stolen" ELSE "ok", NoInfo))
    /\ touched' = Touch(i, FALSE, pc'[i] = "idle")
    /\ UNCHANGED <<file, fd, staleTimeout, alive, now>>
    /\ UNCHANGED <<execVars, treeVars, aftVars>>

\* os.Remove(l.lockPath), not-exist tolerated; l.info = nil
ReleaseRemove(i) ==
    /\ Running(i) /\ pc[i] = "rel_remove"
    /\ IF file = Absent
       THEN UNCHANGED <<file, fd>>
       ELSE /\ file' = Absent
            /\ fd' = Unlinked
    /\ touched' = Touch(i, file # Absent, TRUE)
    /\ info' = [info EXCEPT ![i] = NoInfo]
    /\ renamed' = [renamed EXCEPT ![i] = FALSE]
    /\ Done(i, Res("release", "ok", NoInfo))
    /\ UNCHANGED <<staleTimeout, alive, now>>
    /\ UNCHANGED <<execVars, treeVars, aftVars>>

\* ------------------------------------------------------------ environment

\* a process exits without releasing: its descriptors are closed and its
\* memory (the FileLock values it held) is gone; what it left at the path stays
Gone(f, p, v) == [j \in Instances |-> IF ProcOf(j) = p THEN v ELSE f[j]]

Crash(p) ==
    /\ alive[p]
    /\ alive' = [alive EXCEPT ![p] = FALSE]
    /\ fd' = Gone(fd, p, "none")
    /\ pc' = Gone(pc, p, "idle")
    /\ info' = Gone(info, p, NoInfo)
    /\ staleTimeout' = Gone(staleTimeout, p, DefaultStaleTimeout)
    /\ arg' = Gone(arg, p, "")
    /\ newInfo' = Gone(newInfo, p, NoInfo)
    /\ result' = Gone(result, p, NoResult)
    /\ pre' = Gone(pre, p, "none")
    /\ touched' = Gone(touched, p, FALSE)
    /\ renamed' = Gone(renamed, p, FALSE)
    /\ UNCHANGED <<file, now>>
    /\ UNCHANGED <<execVars, treeVars, aftVars>>

Tick ==
    /\ now < MaxTime
    /\ now' = now + 1
    /\ UNCHANGED <<file, fd, pc, info, staleTimeout, arg, newInfo, result, alive, histVars>>
    /\ UNCHANGED <<execVars, treeVars, aftVars>>

\* ------------------------------------------- the sync run (service layer)

\* the FileLock of the SyncService, and the rule the scheduler runs
RunInst == 1
RunRule == "a"

\* domain.SyncAction by its type and path; a plan has one action for a path
SyncActions ==
    { [type |-> "copy", path |-> "x"],
      [type |-> "delete", path |-> "y"],
      [type |-> "mkdir", path |-> "d"] }
Plans ==
    { p \in UNION { [1..n -> SyncActions] : n \in 0..MaxActions } :
        \A a, b \in DOMAIN p : a # b => p[a].path # p[b].path }

\* what executeAction returns: "ok" (nil) or the error of the adapter
Causes == {"io", "timeout"}
Outcomes == {"ok"} \cup Causes

\* the errors of a run; ActionErr is "action %s on %s: %w"
MkErr(kd, t, pth, c) == [kind |-> kd, type |-> t, path |-> pth, cause |-> c]
NoErr == MkErr("nil", "", "", "")
LookupErr == MkErr("lookup", "", "", "")
ListErr == MkErr("list", "", "", "")
LockErr == MkErr("lock", "", "", "")
CtxErr == MkErr("ctx", "", "", "")
ActionErr(a, c) == MkErr("action", a.type, a.path, c)

\* UNCHANGED of everything the lock model owns
LockIdle == UNCHANGED <<lockVars, histVars>>

\* the scheduler tick: RunSync starts on the rule
RunSync ==
    /\ rpc = "idle" /\ ~cancelled /\ runs < MaxRuns
    /\ rpc' = "plan_lookup"
    /\ runs' = runs + 1
    /\ plan' = <<>> /\ k' = 0 /\ err' = NoErr
    /\ listed' = {} /\ started' = <<>> /\ finished' = <<>>
    /\ UNCHANGED <<cancelled, record>>
    /\ LockIdle
    /\ UNCHANGED <<treeVars, aftVars>>

\* PlanSync returns an error: RunSync records the failure and goes on
PlanFailReleasing(e) == rpc' = "exec_release" /\ err' = e
PlanFail(e) == rpc' = "run_record" /\ err' = e

\* PlanSync: GetRule and the two getAdapter
PlanLookup(ok) ==
    /\ rpc = "plan_lookup"
    /\ IF ok THEN rpc' = "list_source" /\ UNCHANGED err ELSE PlanFail(LookupErr)
    /\ UNCHANGED <<plan, k, cancelled, runs, record, runHist>>
    /\ LockIdle
    /\ UNCHANGED <<treeVars, aftVars>>

\* DefaultExecutor.Plan: listAllFiles on the source
ListSource(ok) ==
    /\ rpc = "list_source"
    /\ listed' = listed \cup {"source"}
    /\ IF ok THEN rpc' = "list_target" /\ UNCHANGED err ELSE PlanFail(ListErr)
    /\ UNCHANGED <<plan, k, cancelled, runs, record, started, finished>>
    /\ LockIdle
    /\ UNCHANGED <<treeVars, aftVars>>

\* DefaultExecutor.Plan: listAllFiles on the target
ListTarget(ok) ==
    /\ rpc = "list_target"
    /\ listed' = listed \cup {"target"}
    /\ IF ok THEN rpc' = "plan_build" /\ UNCHANGED err ELSE PlanFail(ListErr)
    /\ UNCHANGED <<plan, k, cancelled, runs, record, started, finished>>
    /\ LockIdle
    /\ UNCHANGED <<treeVars, aftVars>>

\* the planner builds the plan; PlanSync returns it and RunSync calls ExecuteSync
BuildPlan(p) ==
    /\ rpc = "plan_build"
    /\ plan' = p
    /\ rpc' = "exec_acquire"
    /\ UNCHANGED <<k, err, cancelled, runs, record, runHist>>
    /\ LockIdle
    /\ UNCHANGED <<treeVars, aftVars>>

\* ExecuteSync: s.lock.Acquire(plan.RuleName) is called
ExecuteSyncAcquire ==
    /\ rpc = "exec_acquire"
    /\ EnterAcquire(RunInst, RunRule)
    /\ rpc' = "exec_acquiring"
    /\ UNCHANGED <<plan, k, err, cancelled, runs, record, runHist>>
    /\ UNCHANGED <<treeVars, aftVars>>

\* where ExecuteSync goes when Acquire has returned res
AfterAcquireIgnored(res) == "exec_lookup"
AfterAcquire(res) == IF res.status = "ok" THEN "exec_lookup" ELSE "run_record"

\* Acquire has returned: on an error ExecuteSync returns it wrapped, before the
\* release is deferred
ExecuteSyncAcquired ==
    /\ rpc = "exec_acquiring" /\ pc[RunInst] = "idle"
    /\ rpc' = AfterAcquire(result[RunInst])
    /\ err' = IF result[RunInst].status = "ok" THEN NoErr ELSE LockErr
    /\ UNCHANGED <<plan, k, cancelled, runs, record, runHist>>
    /\ LockIdle
    /\ UNCHANGED <<treeVars, aftVars>>

\* a return of ExecuteSync past the defer: the deferred Release runs next
ExitUnreleased(e) == rpc' = "run_record" /\ err' = e
Exit(e) == rpc' = "exec_release" /\ err' = e

\* ExecuteSync: GetRule and the two getAdapter
ExecLookup(ok) ==
    /\ rpc = "exec_lookup"
    /\ IF ok THEN rpc' = "exec_loop" /\ UNCHANGED err ELSE Exit(LookupErr)
    /\ UNCHANGED <<plan, k, cancelled, runs, record, runHist>>
    /\ LockIdle
    /\ UNCHANGED <<treeVars, aftVars>>

\* the action of loop iteration j (for _, action := range plan.Actions)
ActionAtFirst(j) == plan[1]
ActionAt(j) == plan[j]

\* the range is exhausted: return nil
ExecDone ==
    /\ rpc = "exec_loop" /\ k = Len(plan)
    /\ Exit(NoErr)
    /\ UNCHANGED <<plan, k, cancelled, runs, record, runHist>>
    /\ LockIdle
    /\ UNCHANGED <<treeVars, aftVars>>

\* case <-ctx.Done(): return ctx.Err()
ExecCancelled ==
    /\ rpc = "exec_loop" /\ k < Len(plan) /\ cancelled
    /\ Exit(CtxErr)
    /\ UNCHANGED <<plan, k, cancelled, runs, record, runHist>>
    /\ LockIdle
    /\ UNCHANGED <<treeVars, aftVars>>

\* default: executeAction is called on the action
ExecStartUnchecked ==
    /\ rpc = "exec_loop" /\ k < Len(plan)
    /\ started' = Append(started, ActionAt(k + 1))
    /\ rpc' = "exec_action"
    /\ UNCHANGED <<plan, k, err, cancelled, runs, record, listed, finished>>
    /\ LockIdle
    /\ UNCHANGED <<treeVars, aftVars>>
ExecStart ==
    /\ rpc = "exec_loop" /\ k < Len(plan) /\ ~cancelled
    /\ started' = Append(started, ActionAt(k + 1))
    /\ rpc' = "exec_action"
    /\ UNCHANGED <<plan, k, err, cancelled, runs, record, listed, finished>>
    /\ LockIdle
    /\ UNCHANGED <<treeVars, aftVars>>

\* what the loop does with the outcome o of executeAction on a
AfterActionContinue(a, o) == rpc' = "exec_loop" /\ UNCHANGED err
AfterAction(a, o) ==
    IF o = "ok" THEN rpc' = "exec_loop" /\ UNCHANGED err ELSE Exit(ActionErr(a, o))

\* executeAction returns
ExecFinish(o) ==
    /\ rpc = "exec_action"
    /\ finished' = Append(finished, o)
    /\ k' = k + 1
    /\ AfterAction(ActionAt(k + 1), o)
    /\ UNCHANGED <<plan, cancelled, runs, record, listed, started>>
    /\ LockIdle
    /\ UNCHANGED <<treeVars, aftVars>>

\* the deferred s.lock.Release() is called
ExecuteSyncRelease ==
    /\ rpc = "exec_release"
    /\ EnterRelease(RunInst)
    /\ rpc' = "exec_releasing"
    /\ UNCHANGED <<plan, k, err, cancelled, runs, record, runHist>>
    /\ UNCHANGED <<treeVars, aftVars>>

\* Release has returned (its error is only logged): ExecuteSync returns err
ExecuteSyncReturn ==
    /\ rpc = "exec_releasing" /\ pc[RunInst] = "idle"
    /\ rpc' = "run_record"
    /\ UNCHANGED <<plan, k, err, cancelled, runs, record, runHist>>
    /\ LockIdle
    /\ UNCHANGED <<treeVars, aftVars>>

\* RunSync saves the ExecutionRecord of the rule
RunSyncRecord ==
    /\ rpc = "run_record"
    /\ record' = IF err = NoErr THEN "success" ELSE "failed"
    /\ rpc' = "idle"
    /\ UNCHANGED <<plan, k, err, cancelled, runs, runHist>>
    /\ LockIdle
    /\ UNCHANGED <<treeVars, aftVars>>

\* Daemon.Stop or a signal cancels the context of the runs
Cancel ==
    /\ ~cancelled
    /\ cancelled' = TRUE
    /\ UNCHANGED <<rpc, plan, k, err, runs, record, runHist>>
    /\ LockIdle
    /\ UNCHANGED <<treeVars, aftVars>>

\* ------------------------------------- endpoints, listing and the planner

\* relative paths by their segments: "a", "a/c" and "a/d"
PathSet == {<<"a">>, <<"a", "c">>, <<"a", "d">>}
Parent(p) == SubSeq(p, 1, Len(p) - 1)
Base(p) == <<p[Len(p)]>>
IsUnder(p, d) == Len(p) > Len(d) /\ SubSeq(p, 1, Len(d)) = d

\* a path as the string it is: the bytes of its segments joined by "/"
\* ("/" sorts before every letter)
Byte(n) == CASE n = "a" -> 1 [] n = "c" -> 3 [] n = "d" -> 4 [] OTHER -> 9
RECURSIVE Bytes(_)
Bytes(p) ==
    IF p = <<>> THEN <<>>
    ELSE IF Len(p) = 1 THEN <<Byte(p[1])>>
    ELSE <<Byte(p[1]), 0>> \o Bytes(Tail(p))

\* file contents: their size, and the SHA256 List computes for files up to
\* the checksum limit
Contents == {"p", "q", "rr"}
Size(c) == IF c = "rr" THEN 2 ELSE 1
ChecksumLimit == 1
Checksum(c) == IF Size(c) <= ChecksumLimit THEN c ELSE ""

\* what is at a path of an endpoint; a symlink is one to a regular file, and
\* its content is the content read through it
FileTypes == {"regular", "directory", "symlink"}
MkEntry(t, c, m) == [type |-> t, content |-> c, mtime |-> m]
Missing == MkEntry("none", "", 0)
MTimes == 0..MaxMTime
NewMTime == MaxMTime + 1
FileEntries == {MkEntry("regular", c, m) : c \in Contents, m \in MTimes}
LinkEntries == {MkEntry("symlink", "p", 0)}
DirEntry == MkEntry("directory", "", 0)
Entries == FileEntries \cup LinkEntries \cup {DirEntry, Missing}

\* the trees a file system can hold: what is under a path has a directory above
Trees ==
    { t \in [PathSet -> Entries] :
        \A p \in PathSet :
            (t[p] # Missing /\ Len(p) > 1) => t[Parent(p)].type = "directory" }

\* an ignore pattern by its segments: a name, "*" (any one name; it does not
\* cross "/") or "[" (a malformed pattern: filepath.Match returns an error)
MatchSeg(ps, n) == ps = "*" \/ (ps # "[" /\ ps = n)
Match(pat, p) ==
    /\ Len(pat) = Len(p)
    /\ \A j \in 1..Len(p) : MatchSeg(pat[j], p[j])
    /\ \A j \in 1..Len(pat) : pat[j] # "["

shouldIgnoreFullOnly(p, patterns) == \E pat \in patterns : Match(pat, p)
shouldIgnore(p, patterns) ==
    \E pat \in patterns : Match(pat, Base(p)) \/ Match(pat, p)

\* domain.FileInfo of an entry, as Adapter.List returns it
MkFileInfo(t, sz, m, sum) == [type |-> t, size |-> sz, mtime |-> m, checksum |-> sum]
NoFile == MkFileInfo("none", 0, 0, "")
fileInfoFromOS(e) ==
    IF e.type = "regular"
    THEN MkFileInfo("regular", Size(e.content), e.mtime, Checksum(e.content))
    ELSE IF e.type = "symlink" THEN MkFileInfo("symlink", 1, e.mtime, "")
    ELSE IF e.type = "directory" THEN MkFileInfo("directory", 0, e.mtime, "")
    ELSE NoFile

\* listAllFiles: depth first over the directories, ignored entries and all
\* that is under an ignored directory left out; the path -> FileInfo map
Pruned(p, patterns) ==
    \E j \in 1..Len(p) : shouldIgnore(SubSeq(p, 1, j), patterns)
listAllFiles(tree, patterns) ==
    [p \in PathSet |->
        IF Pruned(p, patterns) THEN NoFile ELSE fileInfoFromOS(tree[p])]

IsDir(f) == f.type = "directory"
IsFile(f) == f.type = "regular"

\* DefaultComparer.Compare (NoFile is nil)
CompareMtimeOnly(src, tgt) ==
    IF src = NoFile /\ tgt = NoFile THEN "identical"
    ELSE IF tgt = NoFile THEN "only_in_source"
    ELSE IF src = NoFile THEN "only_in_target"
    ELSE IF IsFile(src) /\ IsFile(tgt) /\ src.size = tgt.size
            /\ src.mtime = tgt.mtime THEN "identical"
    ELSE "modified"
Compare(src, tgt) ==
    IF src = NoFile /\ tgt = NoFile THEN "identical"
    ELSE IF tgt = NoFile THEN "only_in_source"
    ELSE IF src = NoFile THEN "only_in_target"
    ELSE IF IsFile(src) /\ IsFile(tgt)
    THEN IF src.size # tgt.size THEN "modified"
         ELSE IF src.mtime # tgt.mtime
         THEN IF src.checksum # "" /\ tgt.checksum # ""
              THEN (IF src.checksum = tgt.checksum THEN "identical" ELSE "modified")
              ELSE IF src.checksum = "" /\ tgt.checksum = "" THEN "identical"
              ELSE "modified"
         ELSE "identical"
    ELSE "modified"

\* domain.SyncAction: type, direction ("s2t" is DirSourceToTarget) and path
MkAction(t, d, p) == [type |-> t, dir |-> d, path |-> p]

\* the SyncRule of a plan
Modes == {"push", "pull", "two-way"}
Strategies == {"keep_local", "keep_remote", "keep_newest", "manual"}
PatternSets == { {}, {<<"c">>}, {<<"a", "*">>, <<"[">>}, {<<"*">>} }
MkRule(m, ig, st) == [mode |-> m, ignore |-> ig, strategy |-> st]

\* actionTypeOrder
actionTypeOrder(t) ==
    CASE t = "mkdir" -> 1 [] t = "copy" -> 2 [] t = "delete" -> 3
      [] t = "conflict" -> 4 [] t = "skip" -> 5 [] OTHER -> 99

\* strings.Count(path, "/")
Depth(p) == Len(p) - 1

\* a < b on strings
RECURSIVE SeqLess(_, _)
SeqLess(a, b) ==
    IF b = <<>> THEN FALSE
    ELSE IF a = <<>> THEN TRUE
    ELSE IF Head(a) # Head(b) THEN Head(a) < Head(b)
    ELSE SeqLess(Tail(a), Tail(b))
PathLess(p, q) == SeqLess(Bytes(p), Bytes(q))

\* the less function of sortActions
LessNoPath(x, y) ==
    IF actionTypeOrder(x.type) # actionTypeOrder(y.type)
    THEN actionTypeOrder(x.type) < actionTypeOrder(y.type)
    ELSE IF Depth(x.path) # Depth(y.path)
    THEN (IF x.type = "delete" THEN Depth(x.path) > Depth(y.path)
          ELSE Depth(x.path) < Depth(y.path))
    ELSE FALSE
LessShallowFirst(x, y) ==
    IF actionTypeOrder(x.type) # actionTypeOrder(y.type)
    THEN actionTypeOrder(x.type) < actionTypeOrder(y.type)
    ELSE IF Depth(x.path) # Depth(y.path)
    THEN Depth(x.path) < Depth(y.path)
    ELSE PathLess(x.path, y.path)
Less(x, y) ==
    IF actionTypeOrder(x.type) # actionTypeOrder(y.type)
    THEN actionTypeOrder(x.type) < actionTypeOrder(y.type)
    ELSE IF Depth(x.path) # Depth(y.path)
    THEN (IF x.type = "delete" THEN Depth(x.path) > Depth(y.path)
          ELSE Depth(x.path) < Depth(y.path))
    ELSE PathLess(x.path, y.path)

\* sortActions: sort.Slice by Less (the order of elements Less does not
\* separate is the order the sort happens to meet them in)
RECURSIVE Insert(_, _)
Insert(x, sq) ==
    IF sq = <<>> THEN <<x>>
    ELSE IF Less(x, Head(sq)) THEN <<x>> \o sq
    ELSE <<Head(sq)>> \o Insert(x, Tail(sq))
RECURSIVE sortActions(_)
sortActions(sq) ==
    IF sq = <<>> THEN <<>> ELSE Insert(Head(sq), sortActions(Tail(sq)))

\* DefaultResolver.Resolve
ResolveOlderWins(strategy, path, src, tgt) ==
    IF src = NoFile \/ tgt = NoFile THEN MkAction("conflict", "s2t", path)
    ELSE CASE strategy = "keep_local" -> MkAction("skip", "s2t", path)
           [] strategy = "keep_remote" -> MkAction("copy", "s2t", path)
           [] strategy = "keep_newest" ->
                IF src.mtime > tgt.mtime THEN MkAction("copy", "t2s", path)
                ELSE IF tgt.mtime > src.mtime THEN MkAction("copy", "s2t", path)
                ELSE IF src.size = tgt.size THEN MkAction("skip", "s2t", path)
                ELSE MkAction("conflict", "s2t", path)
           [] OTHER -> MkAction("conflict", "s2t", path)
Resolve(strategy, path, src, tgt) ==
    IF src = NoFile \/ tgt = NoFile THEN MkAction("conflict", "s2t", path)
    ELSE CASE strategy = "keep_local" -> MkAction("skip", "s2t", path)
           [] strategy = "keep_remote" -> MkAction("copy", "s2t", path)
           [] strategy = "keep_newest" ->
                IF src.mtime > tgt.mtime THEN MkAction("copy", "s2t", path)
                ELSE IF tgt.mtime > src.mtime THEN MkAction("copy", "t2s", path)
                ELSE IF src.size = tgt.size THEN MkAction("skip", "s2t", path)
                ELSE MkAction("conflict", "s2t", path)
           [] OTHER -> MkAction("conflict", "s2t", path)

\* what the loops of the planner append for one path (NoFile: not in the map)
FromActions(path, fromMap, toMap, r, direction) ==
    IF fromMap[path] = NoFile \/ shouldIgnore(path, r.ignore) THEN {}
    ELSE IF toMap[path] = NoFile
    THEN (IF IsDir(fromMap[path]) THEN {MkAction("mkdir", direction, path)}
          ELSE {MkAction("copy", direction, path)})
    ELSE IF fromMap[path].type # toMap[path].type
    THEN {MkAction("conflict", direction, path)}
    ELSE IF IsFile(fromMap[path]) /\ IsFile(toMap[path])
            /\ Compare(fromMap[path], toMap[path]) = "modified"
    THEN {MkAction("copy", direction, path)}
    ELSE {}
ToActionsKeep(path, fromMap, toMap, r, direction) == {}
ToActions(path, fromMap, toMap, r, direction) ==
    IF toMap[path] = NoFile \/ shouldIgnore(path, r.ignore) THEN {}
    ELSE IF fromMap[path] = NoFile THEN {MkAction("delete", direction, path)}
    ELSE {}
TwoWayActionsOneSided(path, sourceMap, targetMap, r) ==
    FromActions(path, sourceMap, targetMap, r, "s2t")
TwoWayActionsMirror(path, sourceMap, targetMap, r) ==
    IF sourceMap[path] = NoFile /\ targetMap[path] # NoFile
       /\ ~shouldIgnore(path, r.ignore)
    THEN {MkAction("delete", "s2t", path)}
    ELSE FromActions(path, sourceMap, targetMap, r, "s2t")
TwoWayActions(path, sourceMap, targetMap, r) ==
    IF (sourceMap[path] = NoFile /\ targetMap[path] = NoFile)
       \/ shouldIgnore(path, r.ignore) THEN {}
    ELSE IF targetMap[path] = NoFile
    THEN (IF IsDir(sourceMap[path]) THEN {MkAction("mkdir", "s2t", path)}
          ELSE {MkAction("copy", "s2t", path)})
    ELSE IF sourceMap[path] = NoFile
    THEN (IF IsDir(targetMap[path]) THEN {MkAction("mkdir", "t2s", path)}
          ELSE {MkAction("copy", "t2s", path)})
    ELSE IF sourceMap[path].type # targetMap[path].type
    THEN {MkAction("conflict", "s2t", path)}
    ELSE IF IsFile(sourceMap[path]) /\ IsFile(targetMap[path])
            /\ Compare(sourceMap[path], targetMap[path]) = "modified"
    THEN {Resolve(r.strategy, path, sourceMap[path], targetMap[path])}
    ELSE {}

\* the slices a range loop over a Go map can build when it appends the
\* actions A, one for a path: the map is enumerated in any order
RECURSIVE Appended(_)
Appended(A) ==
    IF A = {} THEN {<<>>}
    ELSE UNION { { <<x>> \o q : q \in Appended(A \ {x}) } : x \in A }

\* PlanOneWay and PlanTwoWay: the plans a call can return, one for every
\* order in which its range loops enumerate their maps
PlanOneWay(fromMap, toMap, r, direction) ==
    { sortActions(s1 \o s2) :
        s1 \in Appended(UNION {FromActions(p, fromMap, toMap, r, direction) : p \in PathSet}),
        s2 \in Appended(UNION {ToActions(p, fromMap, toMap, r, direction) : p \in PathSet}) }
PlanTwoWay(sourceMap, targetMap, r) ==
    { sortActions(s1) :
        s1 \in Appended(UNION {TwoWayActions(p, sourceMap, targetMap, r) : p \in PathSet}) }

\* DefaultExecutor.Plan: the planner of the rule's mode over the two listings
ExecutorPlan(sourceMap, targetMap, r) ==
    CASE r.mode = "push" -> PlanOneWay(sourceMap, targetMap, r, "s2t")
      [] r.mode = "pull" -> PlanOneWay(targetMap, sourceMap, r, "t2s")
      [] OTHER -> PlanTwoWay(sourceMap, targetMap, r)

\* ------------------------------------------- the local adapter on a tree

\* the outcome of an adapter call: the tree it leaves and its error ("" is nil)
Out(t, e) == [tree |-> t, err |-> e]

\* os.MkdirAll: the directories of p that are missing are made; a path that
\* is there and is no directory is an error
RECURSIVE MkdirAll(_, _)
MkdirAll(t, p) ==
    IF p = <<>> \/ t[p].type = "directory" THEN Out(t, "")
    ELSE IF t[p] # Missing THEN Out(t, "not_dir")
    ELSE IF MkdirAll(t, Parent(p)).err # "" THEN MkdirAll(t, Parent(p))
    ELSE Out([MkdirAll(t, Parent(p)).tree EXCEPT ![p] = DirEntry], "")

\* Adapter.Read: os.Stat and os.Open follow a symlink
AdapterRead(t, p) ==
    IF t[p] = Missing THEN [content |-> "", err |-> "not_found"]
    ELSE IF t[p].type = "directory" THEN [content |-> "", err |-> "not_file"]
    ELSE [content |-> t[p].content, err |-> ""]

\* Adapter.Write: the parents are made, then a temporary file is renamed
\* onto the path (a rename onto a directory fails)
AdapterWrite(t, p, c) ==
    IF MkdirAll(t, Parent(p)).err # "" THEN MkdirAll(t, Parent(p))
    ELSE IF MkdirAll(t, Parent(p)).tree[p].type = "directory"
    THEN Out(MkdirAll(t, Parent(p)).tree, "is_dir")
    ELSE Out([MkdirAll(t, Parent(p)).tree EXCEPT
                 ![p] = MkEntry("regular", c, NewMTime)], "")

\* Adapter.Delete: os.Remove, its error mapped by mapError
AdapterDelete(t, p) ==
    IF t[p] = Missing THEN Out(t, "not_found")
    ELSE IF \E q \in PathSet : IsUnder(q, p) /\ t[q] # Missing
    THEN Out(t, "not_empty")
    ELSE Out([t EXCEPT ![p] = Missing], "")

\* Adapter.Mkdir
AdapterMkdir(t, p) == MkdirAll(t, p)

\* executeAction: the adapters by the action's direction, then the call of
\* the action's type on them; the two trees it leaves and its error
ToIsTargetSwapped(a) == a.dir # "s2t"
ToIsTarget(a) == a.dir = "s2t"
OnTo(a, src, tgt, o) ==
    IF ToIsTarget(a) THEN [src |-> src, tgt |-> o.tree, err |-> o.err]
    ELSE [src |-> o.tree, tgt |-> tgt, err |-> o.err]
FromTree(a, src, tgt) == IF ToIsTarget(a) THEN src ELSE tgt
ToTree(a, src, tgt) == IF ToIsTarget(a) THEN tgt ELSE src
executeAction(a, src, tgt) ==
    CASE a.type = "copy" ->
            IF AdapterRead(FromTree(a, src, tgt), a.path).err # ""
            THEN [src |-> src, tgt |-> tgt,
                  err |-> AdapterRead(FromTree(a, src, tgt), a.path).err]
            ELSE OnTo(a, src, tgt,
                      AdapterWrite(ToTree(a, src, tgt), a.path,
                                   AdapterRead(FromTree(a, src, tgt), a.path).content))
      [] a.type = "mkdir" -> OnTo(a, src, tgt, AdapterMkdir(ToTree(a, src, tgt), a.path))
      [] a.type = "delete" -> OnTo(a, src, tgt, AdapterDelete(ToTree(a, src, tgt), a.path))
      [] a.type \in {"skip", "conflict"} -> [src |-> src, tgt |-> tgt, err |-> ""]
      [] OTHER -> [src |-> src, tgt |-> tgt, err |-> "unknown"]

\* ------------------------------------- a sync run over the two endpoints

Rules ==
    {MkRule(m, ig, "manual") : m \in {"push", "pull"}, ig \in PatternSets}
    \cup {MkRule("two-way", ig, "keep_newest") : ig \in PatternSets}
    \cup {MkRule("two-way", {}, st) : st \in Strategies}

\* SyncPlanStats and the Conflicts of a plan before calculateStats
NoStats ==
    [total |-> 0, toCopy |-> 0, toDelete |-> 0, toMkdir |-> 0, conflicts |-> 0,
     bytes |-> 0, list |-> <<>>]

\* calculateStats, case ActionCopy: what is added to BytesToSync for the
\* SourceInfo and TargetInfo of the action (NoFile is nil)
BytesOfTargetFirst(si, ti) ==
    IF ti # NoFile THEN ti.size ELSE IF si # NoFile THEN si.size ELSE 0
BytesOf(si, ti) ==
    IF si # NoFile THEN si.size ELSE IF ti # NoFile THEN ti.size ELSE 0

\* calculateStats, one turn of its loop, for an action whose SourceInfo is
\* the from side's entry of the path and whose TargetInfo is the to side's
StatsWith(st, a, fromMap, toMap) ==
    CASE a.type = "copy" ->
            [st EXCEPT !.total = @ + 1, !.toCopy = @ + 1,
                       !.bytes = @ + BytesOf(fromMap[a.path], toMap[a.path])]
      [] a.type = "delete" -> [st EXCEPT !.total = @ + 1, !.toDelete = @ + 1]
      [] a.type = "mkdir" -> [st EXCEPT !.total = @ + 1, !.toMkdir = @ + 1]
      [] a.type = "conflict" ->
            [st EXCEPT !.total = @ + 1, !.conflicts = @ + 1,
                       !.list = Append(@, a)]
      [] OTHER -> [st EXCEPT !.total = @ + 1]

\* calculateStats over the sorted actions of a plan
RECURSIVE calculateStats(_, _, _)
calculateStats(acts, fromMap, toMap) ==
    IF acts = <<>> THEN NoStats
    ELSE StatsWith(calculateStats(SubSeq(acts, 1, Len(acts) - 1), fromMap, toMap),
                   acts[Len(acts)], fromMap, toMap)

\* the from side and the to side of the planner: PlanOneWay is called with
\* the target first for pull
FromMap(sourceMap, targetMap, r) == IF r.mode = "pull" THEN targetMap ELSE sourceMap
ToMap(sourceMap, targetMap, r) == IF r.mode = "pull" THEN sourceMap ELSE targetMap

\* DefaultExecutor.Plan: both endpoints are listed, then planned by the mode
SyncPlan ==
    /\ sPhase = "new"
    /\ sPlan' \in ExecutorPlan(listAllFiles(srcTree, rule.ignore),
                              listAllFiles(tgtTree, rule.ignore), rule)
    /\ srcListed' = listAllFiles(srcTree, rule.ignore)
    /\ tgtListed' = listAllFiles(tgtTree, rule.ignore)
    /\ sStats' = calculateStats(sPlan', FromMap(srcListed', tgtListed', rule),
                                ToMap(srcListed', tgtListed', rule))
    /\ sIdx' = 1
    /\ sPhase' = "planned"
    /\ UNCHANGED <<srcTree, tgtTree, rule, sErr, rePlan, reMode, vanished>>
    /\ UNCHANGED <<lockVars, histVars, execVars, aftVars>>

\* one turn of the loop of ExecuteSync: the next action is executed, and
\* its error ends the run
SyncStep ==
    /\ sPhase = "planned"
    /\ sIdx <= Len(sPlan)
    /\ LET o == executeAction(sPlan[sIdx], srcTree, tgtTree)
       IN  /\ srcTree' = o.src
           /\ tgtTree' = o.tgt
           /\ IF o.err = ""
              THEN sIdx' = sIdx + 1 /\ UNCHANGED <<sErr, sPhase>>
              ELSE sErr' = o.err /\ sPhase' = "failed" /\ UNCHANGED sIdx
    /\ UNCHANGED <<rule, sPlan, rePlan, reMode, srcListed, tgtListed, vanished>>
    /\ UNCHANGED <<planStats, lockVars, histVars, execVars, aftVars>>

\* the loop of ExecuteSync is through: the run returns nil
SyncFinish ==
    /\ sPhase = "planned"
    /\ sIdx > Len(sPlan)
    /\ sPhase' = "done"
    /\ UNCHANGED <<srcTree, tgtTree, rule, sPlan, sIdx, sErr, rePlan, reMode>>
    /\ UNCHANGED <<syncHist, planStats, lockVars, histVars, execVars, aftVars>>

\* another process removes, after the plan was made and before it is
\* executed, a file, a link or an empty directory that the plan is to delete
Vanish(side, p) ==
    /\ sPhase = "planned"
    /\ sIdx = 1
    /\ ~vanished
    /\ \E j \in 1..Len(sPlan) :
          /\ sPlan[j].type = "delete" /\ sPlan[j].path = p
          /\ ToIsTarget(sPlan[j]) <=> side = "target"
    /\ IF side = "source"
       THEN /\ AdapterDelete(srcTree, p).err = ""
            /\ srcTree' = AdapterDelete(srcTree, p).tree
            /\ UNCHANGED tgtTree
       ELSE /\ AdapterDelete(tgtTree, p).err = ""
            /\ tgtTree' = AdapterDelete(tgtTree, p).tree
            /\ UNCHANGED srcTree
    /\ vanished' = TRUE
    /\ UNCHANGED <<rule, sPlan, sIdx, sErr, sPhase, rePlan, reMode>>
    /\ UNCHANGED <<srcListed, tgtListed, planStats, lockVars, histVars, execVars, aftVars>>

\* the rule is planned again, in mode m, after a run that returned nil
Replan(m) ==
    /\ sPhase = "done"
    /\ rePlan' \in ExecutorPlan(listAllFiles(srcTree, rule.ignore),
                               listAllFiles(tgtTree, rule.ignore),
                               [rule EXCEPT !.mode = m])
    /\ reMode' = m
    /\ sPhase' = "replanned"
    /\ UNCHANGED <<srcTree, tgtTree, rule, sPlan, sIdx, sErr>>
    /\ UNCHANGED <<syncHist, planStats, lockVars, histVars, execVars, aftVars>>

\* ------------------------- the comparer and the resolver on two descriptors

\* the FileInfo values a caller can pass: any type, size, mtime and checksum
\* (a checksum is empty when the adapter computed none), or nil
Sizes == {1, 2}
Checksums == {"", "p", "q"}
Descriptors ==
    {MkFileInfo(t, sz, m, sum) :
        t \in FileTypes, sz \in Sizes, m \in MTimes, sum \in Checksums}
    \cup {NoFile}
ComparePath == <<"a">>
Unresolved == MkAction("none", "", <<>>)

\* a call of Compare(src, tgt)
ApplyCompare ==
    /\ cPhase = "new"
    /\ cDiff' = Compare(cSrc, cTgt)
    /\ cPhase' = "compared"
    /\ UNCHANGED <<cSrc, cTgt, cStrategy, cAction>>
    /\ UNCHANGED <<lockVars, histVars, execVars, treeVars, schedVars, lastVars>>

\* a call of Resolve(strategy, path, src, tgt)
ApplyResolve ==
    /\ cPhase = "compared"
    /\ cAction' = Resolve(cStrategy, ComparePath, cSrc, cTgt)
    /\ cPhase' = "resolved"
    /\ UNCHANGED <<cSrc, cTgt, cStrategy, cDiff>>
    /\ UNCHANGED <<lockVars, histVars, execVars, treeVars, schedVars, lastVars>>

\* --------------------------------------------------- the interval scheduler

\* the goroutines that can run the loop and the threads that call the
\* scheduler; a ticker fires at most MaxTicks times
Loops == 1..MaxLoops
Callers == 1..MaxCallers
RuleLists == {<<>>, <<"a">>, <<"a", "b">>}

\* executeSync: rules := s.config.Rules, or the empty name alone
EffRules == IF Len(cfgRules) = 0 THEN <<"">> ELSE cfgRules

\* Start: the checks made under mu before the loop is started
StartCheckNoStopped(isRunning, isStopped) ==
    IF isRunning THEN "already_running" ELSE "start_ok"
StartCheckNoRunning(isRunning, isStopped) ==
    IF isStopped THEN "cannot_restart" ELSE "start_ok"
StartCheck(isRunning, isStopped) ==
    IF isRunning THEN "already_running"
    ELSE IF isStopped THEN "cannot_restart"
    ELSE "start_ok"

\* the goroutine that go s.run(ctx) makes: the first that does not run yet
FreeLoops == {l \in Loops : lpc[l] = "none"}
NewLoop == CHOOSE l \in FreeLoops : \A m \in FreeLoops : l <= m

\* Start(ctx), all of it under mu.Lock
Start(c) ==
    /\ cpc[c] = "idle"
    /\ ret' = [ret EXCEPT ![c] = StartCheck(running, stopped)]
    /\ IF StartCheck(running, stopped) = "start_ok"
       THEN /\ FreeLoops # {}
            /\ running' = TRUE
            /\ lpc' = [lpc EXCEPT ![NewLoop] = "select"]
       ELSE UNCHANGED <<running, lpc>>
    /\ UNCHANGED <<stopped, stopOnce, closeOnce, stopChan, stoppedChan, stats,
                   cfgRules, ctxDone, idx, hasError, tickReady, cpc, schedHist>>
    /\ UNCHANGED <<lockVars, histVars, execVars, treeVars, pureVars, lastVars, stopHist>>

\* the ticker of a loop sends on ticker.C (buffer one) while it is not stopped
TickerOn(l) == lpc[l] \in {"select", "begin", "call", "inrun", "finish"}
TickerFire(l) ==
    /\ TickerOn(l)
    /\ ~tickReady[l]
    /\ fired < MaxTicks
    /\ tickReady' = [tickReady EXCEPT ![l] = TRUE]
    /\ fired' = fired + 1
    /\ UNCHANGED <<schedState, lpc, idx, hasError, callVars>>
    /\ UNCHANGED <<batch, ticks, lastBatch, stopReturned, fault>>
    /\ UNCHANGED <<lockVars, histVars, execVars, treeVars, pureVars, lastVars, stopHist>>

\* the context passed to Start is cancelled
CancelCtx ==
    /\ ~ctxDone
    /\ ctxDone' = TRUE
    /\ UNCHANGED <<running, stopped, stopOnce, closeOnce, stopChan,
                   stoppedChan, stats, cfgRules>>
    /\ UNCHANGED <<loopVars, callVars, schedHist>>
    /\ UNCHANGED <<lockVars, histVars, execVars, treeVars, pureVars, lastVars, stopHist>>

\* run, select: case <-ctx.Done() is ready
CtxCaseMissing(done) == FALSE
CtxCase(done) == done

\* run, select: case <-ctx.Done(): return
SelectCtx(l) ==
    /\ lpc[l] = "select"
    /\ CtxCase(ctxDone)
    /\ lpc' = [lpc EXCEPT ![l] = "defer"]
    /\ UNCHANGED <<schedState, idx, hasError, tickReady, callVars, schedHist>>
    /\ UNCHANGED <<lockVars, histVars, execVars, treeVars, pureVars, lastVars, stopHist>>

\* run, select: case <-s.stopChan: return
SelectStop(l) ==
    /\ lpc[l] = "select"
    /\ stopChan = "closed"
    /\ lpc' = [lpc EXCEPT ![l] = "defer"]
    /\ UNCHANGED <<schedState, idx, hasError, tickReady, callVars, schedHist>>
    /\ UNCHANGED <<lockVars, histVars, execVars, treeVars, pureVars, lastVars, stopHist>>

\* run, select: case <-ticker.C: s.executeSync(ctx)
SelectTick(l) ==
    /\ lpc[l] = "select"
    /\ tickReady[l]
    /\ tickReady' = [tickReady EXCEPT ![l] = FALSE]
    /\ lpc' = [lpc EXCEPT ![l] = "begin"]
    /\ ticks' = [ticks EXCEPT !.started = @ + 1]
    /\ UNCHANGED <<schedState, idx, hasError, callVars>>
    /\ UNCHANGED <<fired, batch, lastBatch, stopReturned, fault>>
    /\ UNCHANGED <<lockVars, histVars, execVars, treeVars, pureVars, lastVars, stopHist>>

\* executeSync, first critical section: totalRuns++; then the loop starts
executeSyncBegin(l) ==
    /\ lpc[l] = "begin"
    /\ stats' = [stats EXCEPT !.totalRuns = @ + 1]
    /\ idx' = [idx EXCEPT ![l] = 1]
    /\ hasError' = [hasError EXCEPT ![l] = FALSE]
    /\ lpc' = [lpc EXCEPT ![l] = "call"]
    /\ batch' = [batch EXCEPT ![l] = <<>>]
    /\ UNCHANGED <<running, stopped, stopOnce, closeOnce, stopChan,
                   stoppedChan, cfgRules, ctxDone>>
    /\ UNCHANGED <<tickReady, callVars, fired, ticks, lastBatch, stopReturned, fault>>
    /\ UNCHANGED <<lockVars, histVars, execVars, treeVars, pureVars, lastVars, stopHist>>

\* executeSync: s.runner.RunSync(ctx, ruleName) is called
executeSyncCall(l) ==
    /\ lpc[l] = "call"
    /\ batch' = [batch EXCEPT ![l] =
                    Append(@, [name |-> EffRules[idx[l]], out |-> "running"])]
    /\ lpc' = [lpc EXCEPT ![l] = "inrun"]
    /\ UNCHANGED <<schedState, idx, hasError, tickReady, callVars>>
    /\ UNCHANGED <<fired, ticks, lastBatch, stopReturned, fault>>
    /\ UNCHANGED <<lockVars, histVars, execVars, treeVars, pureVars, lastVars, stopHist>>

\* executeSync: the range loop goes on to rules[i] (of n)
ContinueUntilError(i, n, failed) == i <= n /\ ~failed
Continue(i, n, failed) == i <= n

\* executeSync: if err != nil { hasError = true }
NoteLastOnly(had, e) == e # "nil"
NoteError(had, e) == had \/ e # "nil"

\* executeSync: RunSync returns e; the loop goes to the next rule or ends
RunnerOutcomes == {"nil", "err"}
executeSyncReturn(l, e) ==
    /\ lpc[l] = "inrun"
    /\ batch' = [batch EXCEPT ![l][Len(batch[l])].out = e]
    /\ hasError' = [hasError EXCEPT ![l] = NoteError(@, e)]
    /\ idx' = [idx EXCEPT ![l] = @ + 1]
    /\ lpc' = [lpc EXCEPT ![l] =
                  IF Continue(idx[l] + 1, Len(EffRules), NoteError(hasError[l], e))
                  THEN "call" ELSE "finish"]
    /\ UNCHANGED <<schedState, tickReady, callVars>>
    /\ UNCHANGED <<fired, ticks, lastBatch, stopReturned, fault>>
    /\ UNCHANGED <<lockVars, histVars, execVars, treeVars, pureVars, lastVars, stopHist>>

\* a batch of runner calls in which a rule returned an error
Failed(b) == \E j \in 1..Len(b) : b[j].out = "err"

\* executeSync, last critical section: failedRuns++ or successfulRuns++
executeSyncEnd(l) ==
    /\ lpc[l] = "finish"
    /\ stats' = IF hasError[l]
                THEN [stats EXCEPT !.failedRuns = @ + 1, !.lastError = "err"]
                ELSE [stats EXCEPT !.successfulRuns = @ + 1, !.lastError = ""]
    /\ lpc' = [lpc EXCEPT ![l] = "select"]
    /\ ticks' = [ticks EXCEPT !.done = @ + 1,
                              !.ok = IF Failed(batch[l]) THEN @ ELSE @ + 1,
                              !.failed = IF Failed(batch[l]) THEN @ + 1 ELSE @]
    /\ lastBatch' = batch[l]
    /\ UNCHANGED <<running, stopped, stopOnce, closeOnce, stopChan,
                   stoppedChan, cfgRules, ctxDone>>
    /\ UNCHANGED <<idx, hasError, tickReady, callVars>>
    /\ UNCHANGED <<fired, batch, stopReturned, fault>>
    /\ UNCHANGED <<lockVars, histVars, execVars, treeVars, pureVars, lastVars, stopHist>>

\* run returns: ticker.Stop, then closeOnce.Do: stopped and running are set
\* under mu; a second caller of Do waits for the first and does nothing
runDefer(l) ==
    /\ lpc[l] = "defer"
    /\ closeOnce # "running"
    /\ tickReady' = [tickReady EXCEPT ![l] = FALSE]
    /\ IF closeOnce = "new"
       THEN /\ closeOnce' = "running"
            /\ stopped' = TRUE
            /\ running' = FALSE
            /\ lpc' = [lpc EXCEPT ![l] = "close"]
       ELSE /\ lpc' = [lpc EXCEPT ![l] = "done"]
            /\ UNCHANGED <<closeOnce, stopped, running>>
    /\ UNCHANGED <<stopOnce, stopChan, stoppedChan, stats, cfgRules, ctxDone>>
    /\ UNCHANGED <<idx, hasError, callVars, schedHist>>
    /\ UNCHANGED <<lockVars, histVars, execVars, treeVars, pureVars, lastVars, stopHist>>

\* closeOnce.Do, its end: close(s.stoppedChan)
runClose(l) ==
    /\ lpc[l] = "close"
    /\ fault' = (fault \/ stoppedChan = "closed")
    /\ stoppedChan' = "closed"
    /\ closeOnce' = "done"
    /\ lpc' = [lpc EXCEPT ![l] = "done"]
    /\ UNCHANGED <<running, stopped, stopOnce, stopChan, stats, cfgRules, ctxDone>>
    /\ UNCHANGED <<idx, hasError, tickReady, callVars>>
    /\ UNCHANGED <<fired, batch, ticks, lastBatch, stopReturned>>
    /\ UNCHANGED <<lockVars, histVars, execVars, treeVars, pureVars, lastVars, stopHist>>

\* Stop: what it reads of s.running under mu.RLock
StopSeesRunningAlways(isRunning) == TRUE
StopSeesRunning(isRunning) == isRunning

\* Stop, the check under mu.RLock: not running is an error
StopCheck(c) ==
    /\ cpc[c] = "idle"
    /\ IF StopSeesRunning(running)
       THEN /\ cpc' = [cpc EXCEPT ![c] = "stop_once"]
            /\ ret' = [ret EXCEPT ![c] = "none"]
       ELSE /\ ret' = [ret EXCEPT ![c] = "not_running"]
            /\ UNCHANGED cpc
    /\ midStop' = [midStop EXCEPT ![c] =
                      \E l \in Loops : lpc[l] \in {"begin", "call", "inrun", "finish"}]
    /\ UNCHANGED <<schedState, loopVars, schedHist>>
    /\ UNCHANGED <<lockVars, histVars, execVars, treeVars, pureVars, lastVars>>

\* sync.Once.Do: the function is skipped when a Do has run it before
OnceNever(done) == FALSE
OnceDone(done) == done

\* Stop: s.stopOnce.Do(func() { close(s.stopChan) })
StopClose(c) ==
    /\ cpc[c] = "stop_once"
    /\ IF OnceDone(stopOnce)
       THEN UNCHANGED <<stopOnce, stopChan, fault>>
       ELSE /\ stopOnce' = TRUE
            /\ fault' = (fault \/ stopChan = "closed")
            /\ stopChan' = "closed"
    /\ cpc' = [cpc EXCEPT ![c] = "stop_wait"]
    /\ UNCHANGED <<running, stopped, closeOnce, stoppedChan, stats, cfgRules, ctxDone>>
    /\ UNCHANGED <<loopVars, ret>>
    /\ UNCHANGED <<fired, batch, ticks, lastBatch, stopReturned>>
    /\ UNCHANGED <<lockVars, histVars, execVars, treeVars, pureVars, lastVars, stopHist>>

\* a receive from the done signal returns once the channel is closed
DoneSignalIgnored(ch) == TRUE
DoneSignal(ch) == ch = "closed"

\* Stop: <-s.stoppedChan
StopWait(c) ==
    /\ cpc[c] = "stop_wait"
    /\ DoneSignal(stoppedChan)
    /\ cpc' = [cpc EXCEPT ![c] = "stop_mark"]
    /\ UNCHANGED <<schedState, loopVars, ret, schedHist>>
    /\ UNCHANGED <<lockVars, histVars, execVars, treeVars, pureVars, lastVars, stopHist>>

\* Stop: stopped = true under mu.Lock; return nil
StopMark(c) ==
    /\ cpc[c] = "stop_mark"
    /\ stopped' = TRUE
    /\ cpc' = [cpc EXCEPT ![c] = "idle"]
    /\ ret' = [ret EXCEPT ![c] = "stop_ok"]
    /\ stopReturned' = TRUE
    /\ UNCHANGED <<running, stopOnce, closeOnce, stopChan, stoppedChan, stats,
                   cfgRules, ctxDone>>
    /\ UNCHANGED <<loopVars, fired, batch, ticks, lastBatch, fault>>
    /\ UNCHANGED <<lockVars, histVars, execVars, treeVars, pureVars, lastVars, stopHist>>

\* Status(): the snapshot read under mu.RLock
Status ==
    [Running |-> running, TotalRuns |-> stats.totalRuns,
     SuccessfulRuns |-> stats.successfulRuns, FailedRuns |-> stats.failedRuns,
     LastError |-> stats.lastError]

\* a thread calls Status and looks at Running
StatusCall(c) ==
    /\ cpc[c] = "idle"
    /\ ret' = [ret EXCEPT ![c] = IF Status.Running THEN "running" ELSE "idle"]
    /\ UNCHANGED <<schedState, loopVars, cpc, schedHist>>
    /\ UNCHANGED <<lockVars, histVars, execVars, treeVars, pureVars, lastVars, stopHist>>

\* --------------------------------------------------- the progress reporter

\* the threads that report, the operations of the Reporter, and how deep the
\* callback calls back into the reporter
RThreads == 1..MaxThreads
ROps == {"set_total", "start", "update", "complete", "error", "overall"}
MkFrame(op, at) == [op |-> op, at |-> at]
Top(t) == rstack[t][Len(rstack[t])]
SetTop(t, f) == [rstack EXCEPT ![t][Len(rstack[t])] = f]
InCallback(t) == Len(rstack[t]) > 0 /\ Top(t).at = "callback"

\* the calls of Complete that have not yet counted their file
Completing ==
    { <<t, j>> \in RThreads \X (1..MaxDepth) :
        /\ j <= Len(rstack[t])
        /\ rstack[t][j].op = "complete"
        /\ rstack[t][j].at \in {"lock", "held"} }

\* a thread calls an operation of the reporter, or the callback it runs does
\* (at most MaxFiles files are completed)
RCall(t, op) ==
    /\ op = "complete" => rep.filesCompleted + Cardinality(Completing) < MaxFiles
    /\ \/ Len(rstack[t]) = 0
       \/ InCallback(t) /\ Len(rstack[t]) < MaxDepth
    /\ rstack' = [rstack EXCEPT ![t] = Append(@, MkFrame(op, "lock"))]
    /\ UNCHANGED <<rmu, rep>>
    /\ UNCHANGED <<lockVars, histVars, execVars, treeVars, pureVars, schedVars, postRep>>

\* r.mu.Lock(): sync.Mutex is not reentrant
RLock(t) ==
    /\ Len(rstack[t]) > 0 /\ Top(t).at = "lock"
    /\ rmu = 0
    /\ rmu' = t
    /\ rstack' = SetTop(t, MkFrame(Top(t).op, "held"))
    /\ UNCHANGED rep
    /\ UNCHANGED <<lockVars, histVars, execVars, treeVars, pureVars, schedVars, postRep>>

\* the fields an operation writes in its critical section (sizes are 1)
Written(op, r) ==
    CASE op = "set_total" -> [r EXCEPT !.filesTotal = 1]
      [] op = "start" -> [r EXCEPT !.currentTotal = 1, !.currentBytes = 0]
      [] op = "update" -> [r EXCEPT !.currentBytes = 1]
      [] op = "complete" -> [r EXCEPT !.filesCompleted = @ + 1]
      [] OTHER -> r

\* the mutex is released before the callback is called
CallbackUnderLock(op) == FALSE
UnlockFirst(op) == TRUE

\* the critical section and r.mu.Unlock(); SetTotal returns (deferred
\* Unlock), every other operation goes on to callback(update)
RUnlock(t) ==
    /\ Len(rstack[t]) > 0 /\ Top(t).at = "held"
    /\ rep' = Written(Top(t).op, rep)
    /\ IF Top(t).op = "set_total"
       THEN /\ rmu' = 0
            /\ rstack' = [rstack EXCEPT ![t] = SubSeq(@, 1, Len(@) - 1)]
       ELSE /\ rmu' = IF UnlockFirst(Top(t).op) THEN 0 ELSE rmu
            /\ rstack' = SetTop(t, MkFrame(Top(t).op, "callback"))
    /\ UNCHANGED <<lockVars, histVars, execVars, treeVars, pureVars, schedVars, postRep>>

\* the callback returns and the operation with it
RReturn(t) ==
    /\ InCallback(t)
    /\ rstack' = [rstack EXCEPT ![t] = SubSeq(@, 1, Len(@) - 1)]
    /\ UNCHANGED <<rmu, rep>>
    /\ UNCHANGED <<lockVars, histVars, execVars, treeVars, pureVars, schedVars, postRep>>

\* ---------------------------------------------------- the lock directory

InitFiles == {Absent, DeadLocalInfo, ForeignInfo}

InitState ==
    /\ fd = [i \in Instances |-> "none"]
    /\ pc = [i \in Instances |-> "idle"]
    /\ info = [i \in Instances |-> NoInfo]
    /\ staleTimeout = [i \in Instances |-> DefaultStaleTimeout]
    /\ arg = [i \in Instances |-> ""]
    /\ newInfo = [i \in Instances |-> NoInfo]
    /\ result = [i \in Instances |-> NoResult]
    /\ alive = [p \in Procs |-> TRUE]
    /\ now = 0
    /\ pre = [i \in Instances |-> "none"]
    /\ touched = [i \in Instances |-> FALSE]
    /\ renamed = [i \in Instances |-> FALSE]
    /\ rpc = "idle" /\ plan = <<>> /\ k = 0 /\ err = NoErr
    /\ cancelled = FALSE /\ runs = 0 /\ record = "none"
    /\ listed = {} /\ started = <<>> /\ finished = <<>>

\* no endpoints are looked at by the lock and by the run of the service layer
EmptyTree == [p \in PathSet |-> Missing]
NoSync ==
    /\ srcTree = EmptyTree /\ tgtTree = EmptyTree
    /\ rule = MkRule("push", {}, "manual")
    /\ sPlan = <<>> /\ sIdx = 0 /\ sErr = "" /\ rePlan = <<>> /\ reMode = ""
    /\ srcListed = listAllFiles(EmptyTree, {})
    /\ tgtListed = listAllFiles(EmptyTree, {})
    /\ vanished = FALSE
    /\ sStats = NoStats
    /\ sPhase = "off"

\* no descriptors are compared by the lock, the run and the plan
NoPure ==
    /\ cSrc = NoFile /\ cTgt = NoFile /\ cStrategy = "manual"
    /\ cDiff = "" /\ cAction = Unresolved /\ cPhase = "off"

\* NewIntervalScheduler: nothing started, both channels open, no statistics
NewScheduler ==
    /\ running = FALSE /\ stopped = FALSE
    /\ stopOnce = FALSE /\ closeOnce = "new"
    /\ stopChan = "open" /\ stoppedChan = "open"
    /\ stats = [totalRuns |-> 0, successfulRuns |-> 0, failedRuns |-> 0,
                lastError |-> ""]
    /\ ctxDone = FALSE
    /\ lpc = [l \in Loops |-> "none"]
    /\ idx = [l \in Loops |-> 0]
    /\ hasError = [l \in Loops |-> FALSE]
    /\ tickReady = [l \in Loops |-> FALSE]
    /\ ret = [c \in Callers |-> "none"]
    /\ midStop = [c \in Callers |-> FALSE]
    /\ fired = 0
    /\ batch = [l \in Loops |-> <<>>]
    /\ ticks = [started |-> 0, done |-> 0, ok |-> 0, failed |-> 0]
    /\ lastBatch = <<>>
    /\ stopReturned = FALSE
    /\ fault = FALSE

\* no thread calls the scheduler in the lock, the run, the plan and the
\* comparison
NoSched ==
    /\ NewScheduler
    /\ cfgRules = <<>>
    /\ cpc = [c \in Callers |-> "off"]

\* NewCallbackReporter: no call in progress
NewReporter ==
    /\ rmu = 0
    /\ rstack = [t \in RThreads |-> <<>>]
    /\ rep = [filesTotal |-> 0, currentTotal |-> 0, currentBytes |-> 0,
              filesCompleted |-> 0]

\* ------------------------------------ the daemon's runner and the history

\* the rules of the configuration; every one of them has a name
CfgRuleNames == {"a", "b", "c"}
\* the names a caller can pass: a rule, no rule of the configuration, or ""
RunnerArgs == CfgRuleNames \cup {"", "zz"}
MkRecord(n, st, e) == [rule |-> n, status |-> st, error |-> e]
NoRecord == MkRecord("", "", "")

\* Manager.SaveExecution on a database that takes the row: a status other
\* than success, failed or partial is rejected (RunSync drops that error)
SaveExecution(rows, r) ==
    IF r.status \in {"success", "failed", "partial"} THEN Append(rows, r) ELSE rows

\* RunSync: the rules to run, by the name passed
RunnerCall(name) ==
    /\ hpc = "idle" /\ hcalls < MaxRuns
    /\ hcalls' = hcalls + 1
    /\ herrs' = 0
    /\ hi' = 1
    /\ hrec' = NoRecord
    /\ IF name = "" THEN hlist' = enabled /\ hpc' = "loop" /\ hret' = "none"
       ELSE IF name \in CfgRuleNames
       THEN hlist' = <<name>> /\ hpc' = "loop" /\ hret' = "none"
       ELSE hlist' = <<>> /\ hpc' = "idle" /\ hret' = "rule not found"
    /\ UNCHANGED <<enabled, history, attempted>>
    /\ UNCHANGED <<untilRunner, postRunner>>

\* RunSync, for _, rule := range rules: the record of the next rule, or the
\* return of the aggregated errors
RunnerLoop ==
    /\ hpc = "loop"
    /\ IF hi <= Len(hlist)
       THEN /\ hrec' = MkRecord(hlist[hi], "success", "")
            /\ hpc' = "plan"
            /\ UNCHANGED hret
       ELSE /\ hret' = IF herrs > 0 THEN "errors" ELSE "nil"
            /\ hpc' = "idle"
            /\ UNCHANGED hrec
    /\ UNCHANGED <<enabled, hlist, hi, herrs, hcalls, history, attempted>>
    /\ UNCHANGED <<untilRunner, postRunner>>

\* RunSync after a failed rule: continue with the next rule
StopAtFailure(i, n) == n + 1
NextRule(i, n) == i + 1

\* the rule failed with the text e: the record is saved as failed, the error
\* is appended and the loop continues
RunnerFailed(e) ==
    /\ hrec' = [hrec EXCEPT !.status = "failed", !.error = e]
    /\ history' = SaveExecution(history, hrec')
    /\ herrs' = herrs + 1
    /\ hi' = NextRule(hi, Len(hlist))
    /\ hpc' = "loop"

\* RunSync: r.syncSvc.PlanSync(ctx, rule.Name)
RunnerPlan(ok) ==
    /\ hpc = "plan"
    /\ attempted' = Append(attempted, [rule |-> hlist[hi],
                                       plan |-> IF ok THEN "ok" ELSE "err",
                                       exec |-> "none"])
    /\ IF ok THEN hpc' = "exec" /\ UNCHANGED <<hrec, history, herrs, hi>>
       ELSE RunnerFailed("plan_err")
    /\ UNCHANGED <<enabled, hlist, hret, hcalls>>
    /\ UNCHANGED <<untilRunner, postRunner>>

\* RunSync: r.syncSvc.ExecuteSync(ctx, plan), and the record of a success
RunnerExecute(ok) ==
    /\ hpc = "exec"
    /\ attempted' = [attempted EXCEPT ![Len(attempted)].exec =
                         IF ok THEN "ok" ELSE "err"]
    /\ IF ok
       THEN /\ history' = SaveExecution(history, hrec)
            /\ hi' = hi + 1
            /\ hpc' = "loop"
            /\ UNCHANGED <<hrec, herrs>>
       ELSE RunnerFailed("exec_err")
    /\ UNCHANGED <<enabled, hlist, hret, hcalls>>
    /\ UNCHANGED <<untilRunner, postRunner>>

\* no call of RunSync so far and an empty executions table
NewRunner ==
    /\ hlist = <<>> /\ hi = 0 /\ hrec = NoRecord /\ herrs = 0
    /\ hret = "none" /\ hcalls = 0
    /\ history = <<>> /\ attempted = <<>>
NoRunner == NewRunner /\ enabled = <<>> /\ hpc = "off"

\* ------------------------------------------------------- the PID file

\* the processes that call Write, by their pids; a pid of a process that has
\* exited and the pid of a live process that calls nothing
Writers == 1..MaxWriters
DeadPid == MaxWriters + 1
OtherPid == MaxWriters + 2
NoPidFile == -1
EmptyPidFile == 0

\* isProcessRunning: signal 0 reaches the process
isProcessRunning(pid) == pid \in Writers \cup {OtherPid}

\* PIDFile.IsRunning: Read fails on a missing file and on content that is
\* no number, and then the answer is false
IsRunning(f) == f \notin {NoPidFile, EmptyPidFile} /\ isProcessRunning(f)

\* Write: os.Stat(p.path)
PidStat(w) ==
    /\ ppc[w] = "idle" /\ pret[w] = "none"
    /\ ppc' = [ppc EXCEPT ![w] = IF pfile = NoPidFile THEN "write" ELSE "check"]
    /\ UNCHANGED <<pfile, pret>>
    /\ UNCHANGED <<untilPid, dmnVars>>

\* Write: the file exists; p.IsRunning() reads it
PidCheck(w) ==
    /\ ppc[w] = "check"
    /\ IF IsRunning(pfile)
       THEN /\ ppc' = [ppc EXCEPT ![w] = "idle"]
            /\ pret' = [pret EXCEPT ![w] = "already_running"]
       ELSE /\ ppc' = [ppc EXCEPT ![w] = "remove"]
            /\ UNCHANGED pret
    /\ UNCHANGED pfile
    /\ UNCHANGED <<untilPid, dmnVars>>

\* Write: os.Remove(p.path) of the stale file, its error ignored
PidRemove(w) ==
    /\ ppc[w] = "remove"
    /\ pfile' = NoPidFile
    /\ ppc' = [ppc EXCEPT ![w] = "write"]
    /\ UNCHANGED pret
    /\ UNCHANGED <<untilPid, dmnVars>>

\* Write: os.WriteFile opens the file with O_CREATE|O_TRUNC
PidWriteOpen(w) ==
    /\ ppc[w] = "write"
    /\ pfile' = EmptyPidFile
    /\ ppc' = [ppc EXCEPT ![w] = "data"]
    /\ UNCHANGED pret
    /\ UNCHANGED <<untilPid, dmnVars>>

\* Write: os.WriteFile writes the pid and closes; Write returns nil
PidWriteData(w) ==
    /\ ppc[w] = "data"
    /\ pfile' = w
    /\ ppc' = [ppc EXCEPT ![w] = "idle"]
    /\ pret' = [pret EXCEPT ![w] = "nil"]
    /\ UNCHANGED <<untilPid, dmnVars>>

NoPid ==
    /\ pfile = NoPidFile
    /\ ppc = [w \in Writers |-> "off"]
    /\ pret = [w \in Writers |-> "none"]

\* ---------------------------------------------------- the daemon service

\* DaemonService.Start under d.mu: a daemon that has a scheduler is running
\* already; otherwise a scheduler is made for all enabled rules, kept in
\* d.scheduler, and started on the context passed (a new one or the one of
\* the Start before)
DaemonStart(c) ==
    /\ dpc[c] = "idle" /\ dmu = 0
    /\ IF dSched
       THEN /\ dret' = [dret EXCEPT ![c] = "daemon is already running"]
            /\ UNCHANGED <<dSched, dStarts, schedVars>>
       ELSE /\ dStarts < MaxStarts
            /\ dStarts' = dStarts + 1
            /\ dSched' = TRUE
            /\ dret' = [dret EXCEPT ![c] =
                           IF StartCheck(FALSE, FALSE) = "start_ok" THEN "nil"
                           ELSE "failed to start scheduler"]
            /\ running' = (StartCheck(FALSE, FALSE) = "start_ok")
            /\ lpc' = [l \in Loops |->
                          IF l = 1 /\ StartCheck(FALSE, FALSE) = "start_ok"
                          THEN "select" ELSE "none"]
            /\ stopped' = FALSE /\ stopOnce' = FALSE /\ closeOnce' = "new"
            /\ stopChan' = "open" /\ stoppedChan' = "open"
            /\ stats' = [totalRuns |-> 0, successfulRuns |-> 0, failedRuns |-> 0,
                         lastError |-> ""]
            /\ cfgRules' = <<>>
            /\ ctxDone' \in {FALSE, ctxDone}
            /\ idx' = [l \in Loops |-> 0]
            /\ hasError' = [l \in Loops |-> FALSE]
            /\ tickReady' = [l \in Loops |-> FALSE]
            /\ cpc' = [t \in Callers |-> "off"]
            /\ ret' = [t \in Callers |-> "none"]
            /\ midStop' = [t \in Callers |-> FALSE]
            /\ fired' = 0
            /\ batch' = [l \in Loops |-> <<>>]
            /\ ticks' = [started |-> 0, done |-> 0, ok |-> 0, failed |-> 0]
            /\ lastBatch' = <<>>
            /\ stopReturned' = FALSE
            /\ UNCHANGED fault
    /\ UNCHANGED <<dmu, dpc, dseen>>
    /\ UNCHANGED besideDaemon

\* DaemonService.Stop takes d.mu: without a scheduler the daemon is not
\* running; otherwise d.scheduler.Stop() is called, which returns its error
\* at once when the scheduler is not running, and d.scheduler is left as it is
DaemonStopCall(c) ==
    /\ dpc[c] = "idle" /\ dmu = 0
    /\ IF ~dSched
       THEN /\ dret' = [dret EXCEPT ![c] = "daemon is not running"]
            /\ UNCHANGED <<dmu, dpc, cpc, ret>>
       ELSE IF StopSeesRunning(running)
       THEN /\ dmu' = c
            /\ dpc' = [dpc EXCEPT ![c] = "stopping"]
            /\ cpc' = [cpc EXCEPT ![c] = "stop_once"]
            /\ ret' = [ret EXCEPT ![c] = "none"]
            /\ UNCHANGED dret
       ELSE /\ dret' = [dret EXCEPT ![c] = "failed to stop scheduler"]
            /\ ret' = [ret EXCEPT ![c] = "not_running"]
            /\ UNCHANGED <<dmu, dpc, cpc>>
    /\ UNCHANGED <<dSched, dseen, dStarts>>
    /\ UNCHANGED <<schedState, loopVars, schedHist, stopHist>>
    /\ UNCHANGED besideDaemon

\* DaemonService.Stop: d.scheduler.Stop() has returned nil; d.scheduler = nil
DaemonStopReturn(c) ==
    /\ dpc[c] = "stopping" /\ cpc[c] = "idle" /\ ret[c] = "stop_ok"
    /\ dSched' = FALSE
    /\ dmu' = 0
    /\ dpc' = [dpc EXCEPT ![c] = "idle"]
    /\ dret' = [dret EXCEPT ![c] = "nil"]
    /\ UNCHANGED <<dseen, dStarts, schedVars>>
    /\ UNCHANGED besideDaemon

\* DaemonService.Status under d.mu.RLock: Running is d.scheduler != nil
DaemonStatus(c) ==
    /\ dpc[c] = "idle" /\ dmu = 0
    /\ dseen' = [dseen EXCEPT ![c] = IF dSched THEN "running" ELSE "stopped"]
    /\ UNCHANGED <<dmu, dSched, dpc, dret, dStarts, schedVars>>
    /\ UNCHANGED besideDaemon

\* NewDaemonService: no scheduler yet
NewDaemon ==
    /\ dmu = 0 /\ dSched = FALSE /\ dStarts = 0
    /\ dret = [c \in Callers |-> "none"]
    /\ dseen = [c \in Callers |-> "none"]
NoDaemon == NewDaemon /\ dpc = [c \in Callers |-> "off"]

NoLast == NewReporter /\ NoRunner /\ NoPid /\ NoDaemon

NoLater == NoPure /\ NoSched /\ NoLast

Init == file \in InitFiles /\ InitState /\ NoSync /\ NoLater

Next ==
    \/ \E i \in Instances : \E r \in RulesOf(i) : CallAcquire(i, r)
    \/ \E i \in Instances : CallRelease(i)
    \/ \E i \in Configurable, d \in StaleTimeouts : SetStaleTimeout(i, d)
    \/ \E i \in Instances : AcquireCheckHeld(i)
    \/ \E i \in Instances : AcquireWriteOpen(i)
    \/ \E i \in Instances : AcquireWriteData(i)
    \/ \E i \in Instances : AcquireRead(i)
    \/ \E i \in Instances : AcquireRemoveStale(i)
    \/ \E i \in Instances : AcquireCreate(i)
    \/ \E i \in Instances : AcquireExistRead(i)
    \/ \E i \in Instances : AcquireEncode(i)
    \/ \E i \in Instances : ReleaseRead(i)
    \/ \E i \in Instances : ReleaseRemove(i)
    \/ \E p \in Crashable : Crash(p)
    \/ Tick

Spec == Init /\ [][Next]_vars

\* the daemon's sync runs on FileLock instance 1, beside another client of the
\* lock directory (instance 2, in a process that may exit at any point)
Others == Instances \ {RunInst}

NextExec ==
    \/ RunSync
    \/ \E ok \in BOOLEAN : PlanLookup(ok)
    \/ \E ok \in BOOLEAN : ListSource(ok)
    \/ \E ok \in BOOLEAN : ListTarget(ok)
    \/ \E p \in Plans : BuildPlan(p)
    \/ ExecuteSyncAcquire
    \/ ExecuteSyncAcquired
    \/ \E ok \in BOOLEAN : ExecLookup(ok)
    \/ ExecDone
    \/ ExecCancelled
    \/ ExecStart
    \/ \E o \in Outcomes : ExecFinish(o)
    \/ ExecuteSyncRelease
    \/ ExecuteSyncReturn
    \/ RunSyncRecord
    \/ Cancel
    \/ \E i \in Others : \E r \in RulesOf(i) : CallAcquire(i, r)
    \/ \E i \in Others : CallRelease(i)
    \/ \E i \in Instances : AcquireCheckHeld(i)
    \/ \E i \in Instances : AcquireWriteOpen(i)
    \/ \E i \in Instances : AcquireWriteData(i)
    \/ \E i \in Instances : AcquireRead(i)
    \/ \E i \in Instances : AcquireRemoveStale(i)
    \/ \E i \in Instances : AcquireCreate(i)
    \/ \E i \in Instances : AcquireExistRead(i)
    \/ \E i \in Instances : AcquireEncode(i)
    \/ \E i \in Instances : ReleaseRead(i)
    \/ \E i \in Instances : ReleaseRemove(i)
    \/ \E p \in Crashable : Crash(p)

SpecExec == Init /\ [][NextExec]_vars

\* a rule over two endpoints: planned, executed and planned again
InitSync ==
    /\ file = Absent
    /\ InitState
    /\ srcTree \in Trees /\ tgtTree \in Trees
    /\ rule \in Rules
    /\ sPlan = <<>> /\ sIdx = 0 /\ sErr = "" /\ rePlan = <<>> /\ reMode = ""
    /\ srcListed = listAllFiles(EmptyTree, {})
    /\ tgtListed = listAllFiles(EmptyTree, {})
    /\ vanished = FALSE
    /\ sStats = NoStats
    /\ sPhase = "new"
    /\ NoLater

NextSync ==
    \/ SyncPlan
    \/ SyncStep
    \/ SyncFinish
    \/ \E side \in {"source", "target"}, p \in PathSet : Vanish(side, p)
    \/ \E m \in Modes : Replan(m)

SpecSync == InitSync /\ [][NextSync]_vars

\* Compare and then Resolve called on two descriptors
InitPure ==
    /\ file = Absent
    /\ InitState
    /\ NoSync
    /\ cSrc \in Descriptors /\ cTgt \in Descriptors
    /\ cStrategy \in Strategies
    /\ cDiff = "" /\ cAction = Unresolved /\ cPhase = "new"
    /\ NoSched
    /\ NoLast

NextPure ==
    \/ ApplyCompare
    \/ ApplyResolve

SpecPure == InitPure /\ [][NextPure]_vars

\* a scheduler with some rule names, called by the threads of its owner,
\* with its loop, its ticker and the context of its Start
InitSched ==
    /\ file = Absent
    /\ InitState
    /\ NoSync
    /\ NoPure
    /\ NewScheduler
    /\ cfgRules \in RuleLists
    /\ cpc = [c \in Callers |-> "idle"]
    /\ NoLast

LoopStep(l) ==
    \/ SelectTick(l)
    \/ executeSyncBegin(l)
    \/ executeSyncCall(l)
    \/ \E e \in RunnerOutcomes : executeSyncReturn(l, e)
    \/ executeSyncEnd(l)
    \/ runDefer(l)
    \/ runClose(l)

NextSched ==
    \/ \E c \in Callers : Start(c)
    \/ \E c \in Callers : StopCheck(c)
    \/ \E c \in Callers : StopClose(c)
    \/ \E c \in Callers : StopWait(c)
    \/ \E c \in Callers : StopMark(c)
    \/ \E c \in Callers : StatusCall(c)
    \/ \E l \in Loops : TickerFire(l)
    \/ \E l \in Loops : SelectCtx(l)
    \/ \E l \in Loops : SelectStop(l)
    \/ \E l \in Loops : SelectTick(l)
    \/ \E l \in Loops : executeSyncBegin(l)
    \/ \E l \in Loops : executeSyncCall(l)
    \/ \E l \in Loops, e \in RunnerOutcomes : executeSyncReturn(l, e)
    \/ \E l \in Loops : executeSyncEnd(l)
    \/ \E l \in Loops : runDefer(l)
    \/ \E l \in Loops : runClose(l)
    \/ CancelCtx

SpecSched == InitSched /\ [][NextSched]_vars

\* the goroutine of run and a thread inside Stop keep running, a RunSync
\* returns, and a select whose ctx.Done or stopChan case is ready again and
\* again takes that case at some time (the runtime picks among the ready
\* cases at random)
StopStep(c) == StopClose(c) \/ StopWait(c) \/ StopMark(c)
FairSched ==
    /\ \A l \in Loops : WF_vars(LoopStep(l))
    /\ \A l \in Loops : SF_vars(SelectCtx(l))
    /\ \A l \in Loops : SF_vars(SelectStop(l))
    /\ \A c \in Callers : WF_vars(StopStep(c))

SpecSchedLive == InitSched /\ [][NextSched]_vars /\ FairSched

\* a reporter with a callback, used by the threads of a sync at once
InitRep == file = Absent /\ InitState /\ NoSync /\ NoLater

NextRep ==
    \/ \E t \in RThreads, op \in ROps : RCall(t, op)
    \/ \E t \in RThreads : RLock(t)
    \/ \E t \in RThreads : RUnlock(t)
    \/ \E t \in RThreads : RReturn(t)

SpecRep == InitRep /\ [][NextRep]_vars

\* the runner over a configuration whose enabled rules are some of the
\* rules, in some order
EnabledLists ==
    { q \in UNION {[1..n -> CfgRuleNames] : n \in 0..Cardinality(CfgRuleNames)} :
        \A i, j \in 1..Len(q) : q[i] = q[j] => i = j }

InitRunner ==
    /\ file = Absent /\ InitState /\ NoSync /\ NoPure /\ NoSched
    /\ NewReporter
    /\ NewRunner
    /\ enabled \in EnabledLists
    /\ hpc = "idle"
    /\ NoPid /\ NoDaemon

NextRunner ==
    \/ \E name \in RunnerArgs : RunnerCall(name)
    \/ RunnerLoop
    \/ \E ok \in BOOLEAN : RunnerPlan(ok)
    \/ \E ok \in BOOLEAN : RunnerExecute(ok)

SpecRunner == InitRunner /\ [][NextRunner]_vars

\* live processes that each call Write once on the same path, which is
\* absent, stale, or names a live process
InitPid ==
    /\ file = Absent /\ InitState /\ NoSync /\ NoPure /\ NoSched
    /\ NewReporter /\ NoRunner
    /\ pfile \in {NoPidFile, EmptyPidFile, DeadPid, OtherPid}
    /\ ppc = [w \in Writers |-> "idle"]
    /\ pret = [w \in Writers |-> "none"]
    /\ NoDaemon

NextPid ==
    \/ \E w \in Writers : PidStat(w)
    \/ \E w \in Writers : PidCheck(w)
    \/ \E w \in Writers : PidRemove(w)
    \/ \E w \in Writers : PidWriteOpen(w)
    \/ \E w \in Writers : PidWriteData(w)

SpecPid == InitPid /\ [][NextPid]_vars

\* the daemon service called by the threads of its owner, with the loop of
\* its scheduler, the ticker and the context of Start
InitDaemon ==
    /\ file = Absent /\ InitState /\ NoSync /\ NoPure
    /\ NoSched
    /\ NewReporter /\ NoRunner /\ NoPid
    /\ NewDaemon
    /\ dpc = [c \in Callers |-> "idle"]

NextDaemon ==
    \/ \E c \in Callers : DaemonStart(c)
    \/ \E c \in Callers : DaemonStopCall(c)
    \/ \E c \in Callers : DaemonStopReturn(c)
    \/ \E c \in Callers : DaemonStatus(c)
    \/ \E c \in Callers : StopClose(c)
    \/ \E c \in Callers : StopWait(c)
    \/ \E c \in Callers : StopMark(c)
    \/ \E l \in Loops : TickerFire(l)
    \/ \E l \in Loops : SelectCtx(l)
    \/ \E l \in Loops : SelectStop(l)
    \/ \E l \in Loops : SelectTick(l)
    \/ \E l \in Loops : executeSyncBegin(l)
    \/ \E l \in Loops : executeSyncCall(l)
    \/ \E l \in Loops : \E e \in RunnerOutcomes : executeSyncReturn(l, e)
    \/ \E l \in Loops : executeSyncEnd(l)
    \/ \E l \in Loops : runDefer(l)
    \/ \E l \in Loops : runClose(l)
    \/ CancelCtx

SpecDaemon == InitDaemon /\ [][NextDaemon]_vars

\* --------------------------------------------------------------- claims

\* the step is one of instance i itself (its process has not just exited)
StepOf(i) == pc'[i] # pc[i] /\ alive'[ProcOf(i)]

\* the step is the one that ends instance i's running call
Returns(i) == StepOf(i) /\ pc'[i] = "idle"

\* between a successful Acquire and the end of the next Release
Holds(i) == Running(i) /\ info[i] # NoInfo

\* C1: lock mutual exclusion: whatever the lock file was at the start (absent,
\* held or stale), at most one of the running instances has acquired
\* successfully and not released since.
C1_MutualExclusion == Cardinality({i \in Instances : Holds(i)}) <= 1

\* C2: lock liveness: an Acquire that begins on the lock of a holder that has
\* exited (same host), or on a lock of another host older than the stale
\* timeout, and that no other instance interferes with, succeeds, and the lock
\* file then holds the acquirer's LockInfo (its pid, this host).
C2_StaleReclaim ==
    [][\A i \in Instances :
        (Returns(i) /\ result'[i].op = "acquire" /\ result'[i].iso \in {"dead", "expired"})
        => /\ result'[i].status = "ok"
           /\ file' = info'[i]
           /\ file'.kind = "info" /\ file'.pid = ProcOf(i) /\ file'.host = LocalHost]_vars

C2_Witness ==
    \E i \in Instances :
        /\ result[i].op = "acquire" /\ result[i].iso = "dead" /\ result[i].status = "ok"
        /\ file = info[i] /\ file.pid = ProcOf(i)

\* the same on the lock of another host, once the stale timeout has elapsed
C2_WitnessExpired ==
    \E i \in Instances :
        /\ result[i].op = "acquire" /\ result[i].iso = "expired" /\ result[i].status = "ok"
        /\ file = info[i] /\ file.pid = ProcOf(i)

\* C3: a lock of this host whose pid is alive is never stale, whatever the
\* elapsed time and the stale timeout: an Acquire that reads it fails with
\* lock-busy naming it as the holder, and leaves the lock file as it is.
C3_LiveLockNeverStale ==
    [][\A i \in Instances :
        (/\ pc[i] = "acq_read" /\ StepOf(i)
         /\ readOk(file) /\ file.host = LocalHost
         /\ file.pid \in Procs /\ alive[file.pid])
        => /\ pc'[i] = "idle"
           /\ result'[i].status = "busy" /\ result'[i].holder = file
           /\ file' = file]_vars

C3_Witness ==
    \E i \in Instances :
        /\ result[i].op = "acquire" /\ result[i].status = "busy"
        /\ result[i].holder = file
        /\ file.host = LocalHost /\ file.pid \in Procs /\ alive[file.pid]
        /\ ~OwnedBy(file, i)
        /\ now - file.start.t > staleTimeout[i]

\* C4: Release never removes a lock file that belongs to another holder: the
\* file its os.Remove takes away is the one this instance wrote.
C4_ReleaseRemovesOnlyOwn ==
    [][\A i \in Instances :
        (pc[i] = "rel_remove" /\ StepOf(i) /\ file # Absent)
        => OwnedBy(file, i)]_vars

\* C5: an instance that holds the lock and acquires again succeeds, and the
\* rule name of the call is then in the lock file and in the handle alike; a
\* Release of an instance that holds the lock, after any re-acquisitions,
\* succeeds (never stolen) and removes the lock file.
C5_ReacquireThenRelease ==
    [][\A i \in Instances :
        /\ (Returns(i) /\ result'[i].op = "acquire" /\ result'[i].iso \in {"held", "reheld"})
           => /\ result'[i].status = "ok"
              /\ file' = info'[i]
              /\ file'.rule = arg[i] /\ info'[i].rule = arg[i]
        /\ (Returns(i) /\ result'[i].op = "release" /\ result'[i].iso \in {"held", "reheld"})
           => /\ result'[i].status = "ok"
              /\ file' = Absent /\ info'[i] = NoInfo]_vars

C5_Witness ==
    \E i \in Instances :
        /\ result[i].op = "release" /\ result[i].iso = "reheld" /\ result[i].status = "ok"
        /\ file = Absent

\* C6: an Acquire that fails because the lock file of another holder is there,
\* at the check or at the exclusive create, fails with lock-busy carrying the
\* holder's LockInfo (never with another error).
C6_ExistFailureIsBusy ==
    \A i \in Instances :
        result[i].op = "acquire" /\ result[i].status \notin {"ok", "remove_error"}
        => /\ result[i].status = "busy" /\ readOk(result[i].holder)
           /\ info[i] = NoInfo

\* ------------------------------------------------- claims on the sync run

\* the positions of a run inside PlanSync, and inside ExecuteSync between the
\* successful Acquire and the return statement
Planning == {"plan_lookup", "list_source", "list_target", "plan_build"}
Executing == {"exec_lookup", "exec_loop", "exec_action"}
Locked == Executing \cup {"exec_release", "exec_releasing"}

\* C7: in a sync run the lock is acquired before either endpoint tree is
\* listed and is kept through planning: every step that lists a tree or
\* builds the plan is taken while the run holds the lock.
C7_LockBeforeListing ==
    [][(rpc \in {"list_source", "list_target", "plan_build"} /\ rpc' # rpc)
       => Holds(RunInst)]_vars

\* C7 (amended): a sync run lists both trees and builds its plan before it
\* acquires the lock, holding no lock; it acquires the lock after planning and
\* before its first action, and holds its handle on the lock at every step of
\* the execution of the plan.
C7_LockAfterPlanning ==
    /\ rpc \in Planning => ~Holds(RunInst) /\ pc[RunInst] = "idle"
    /\ rpc \in Executing => Holds(RunInst) /\ listed = {"source", "target"}

C7_Witness ==
    /\ rpc = "exec_action" /\ Holds(RunInst)
    /\ listed = {"source", "target"} /\ file = info[RunInst]

\* C8: within one run the actions execute in planner order, each at most
\* once: the actions started are a prefix of the plan (whose actions have
\* distinct paths), and an action starts only when every action started
\* before it has finished.
C8_PlannerOrder ==
    /\ Len(started) <= Len(plan)
    /\ \A j \in 1..Len(started) : started[j] = plan[j]
    /\ Len(finished) <= Len(started) /\ Len(started) <= Len(finished) + 1
    /\ (Len(started) = Len(finished) + 1) <=> (rpc = "exec_action")

C8_Witness ==
    /\ Len(plan) = MaxActions /\ started = plan
    /\ finished = [j \in 1..MaxActions |-> "ok"]
    /\ rpc = "idle" /\ record = "success"

\* C9: fail-fast: after an action has failed no further action is started,
\* and the error of the run is the error of that action wrapped with its type
\* and path, which is what the caller gets (the run is recorded as failed).
C9_FailFast ==
    \A j \in 1..Len(finished) :
        finished[j] # "ok"
        => /\ j = Len(started)
           /\ err = ActionErr(started[j], finished[j])
           /\ err.type = plan[j].type /\ err.path = plan[j].path
           /\ rpc \in {"exec_release", "exec_releasing", "run_record", "idle"}
           /\ rpc = "idle" => record = "failed"

C9_Witness ==
    /\ Len(plan) = MaxActions /\ Len(finished) = 1 /\ finished[1] \in Causes
    /\ err = ActionErr(plan[1], finished[1])
    /\ rpc = "idle" /\ record = "failed"

\* C10: once a run has acquired the lock, every return of ExecuteSync (plan
\* done, action error, cancellation, lookup error) goes through Release, and
\* when ExecuteSync has returned no lock file written by the run is left and
\* the handle holds nothing.
C10_ReleaseOnEveryExit ==
    /\ [](rpc \notin Locked /\ rpc # "exec_acquiring"
          => ~OwnedBy(file, RunInst) /\ info[RunInst] = NoInfo)
    /\ [][(rpc \in Locked /\ rpc' \notin Locked)
          => rpc = "exec_releasing" /\ result[RunInst].op = "release"]_vars

C10_Witness ==
    /\ rpc = "run_record" /\ err = CtxErr
    /\ result[RunInst].op = "release" /\ result[RunInst].status = "ok"
    /\ result[RunInst].iso = "held" /\ file = Absent

\* ------------------------------------- claims on the plan and its execution

\* a step of the executor: one action of the plan was executed
Executed ==
    /\ sPhase = "planned"
    /\ vanished' = vanished
    /\ sIdx' = sIdx + 1 \/ sPhase' = "failed"
ActionTypes(sq) == {sq[j].type : j \in 1..Len(sq)}

\* C11: executing an action of a push plan leaves the source endpoint as it
\* is, and executing an action of a pull plan leaves the target endpoint as
\* it is: nothing is written, made or deleted on the "from" side.
C11_FromSideUntouched ==
    [][Executed =>
          /\ rule.mode = "push" => srcTree' = srcTree
          /\ rule.mode = "pull" => tgtTree' = tgtTree]_vars

\* a pull run that copied a file to the source and deleted there is through
C11_Witness ==
    /\ sPhase = "done"
    /\ rule.mode = "pull"
    /\ ActionTypes(sPlan) = {"copy", "delete"}
    /\ \E j \in 1..Len(sPlan) :
          sPlan[j].type = "copy" /\ srcTree[sPlan[j].path].mtime = NewMTime
    /\ \E j \in 1..Len(sPlan) :
          sPlan[j].type = "delete" /\ srcTree[sPlan[j].path] = Missing

\* C12: a delete action whose path is no longer on the destination when it
\* runs counts as done: the run does not end with the error and goes on to
\* the next action.
C12_DeleteNotFoundTolerated ==
    [][(/\ Executed
        /\ sPlan[sIdx].type = "delete"
        /\ ToTree(sPlan[sIdx], srcTree, tgtTree)[sPlan[sIdx].path] = Missing)
       => sPhase' = "planned" /\ sIdx' = sIdx + 1]_vars

Planned ==
    (IF sPhase \in {"off", "new"} THEN {} ELSE {sPlan})
    \cup (IF sPhase = "replanned" THEN {rePlan} ELSE {})
OrderSafe(sq) ==
    \A i, j \in 1..Len(sq) :
        IsUnder(sq[j].path, sq[i].path) =>
            /\ (sq[i].type = "mkdir" /\ sq[j].type = "copy") => i < j
            /\ (sq[i].type = "delete" /\ sq[j].type = "delete") => j < i

\* C14: in every plan the planner returns, the mkdir of a directory comes
\* before the copy of a path under it, and the delete of a path comes before
\* the delete of the directory it is under.
C14_OrderSafety == \A sq \in Planned : OrderSafe(sq)

\* a plan that deletes a directory and a path under it
C14_Witness ==
    /\ sPhase = "planned"
    /\ \E i, j \in 1..Len(sPlan) :
          /\ IsUnder(sPlan[j].path, sPlan[i].path)
          /\ sPlan[i].type = "delete" /\ sPlan[j].type = "delete"

\* C15: for given trees and a given rule the planner returns one plan, the
\* same actions in the same order, whatever the order in which the range
\* loops enumerate the path maps.
C15_Determinism ==
    /\ (sPhase = "planned" /\ sIdx = 1 /\ ~vanished)
       => ExecutorPlan(listAllFiles(srcTree, rule.ignore),
                       listAllFiles(tgtTree, rule.ignore), rule) = {sPlan}
    /\ sPhase = "replanned"
       => ExecutorPlan(listAllFiles(srcTree, rule.ignore),
                       listAllFiles(tgtTree, rule.ignore),
                       [rule EXCEPT !.mode = reMode]) = {rePlan}

\* a plan with two actions that the type and the depth do not tell apart
C15_Witness ==
    /\ sPhase = "planned" /\ sIdx = 1 /\ ~vanished
    /\ \E i, j \in 1..Len(sPlan) :
          /\ i < j
          /\ sPlan[i].type = sPlan[j].type
          /\ Depth(sPlan[i].path) = Depth(sPlan[j].path)

\* a pattern of the rule matches the base name or the whole relative path
MatchesIgnore(p, patterns) ==
    \E pat \in patterns : Match(pat, Base(p)) \/ Match(pat, p)

\* C16: a path that an ignore pattern of the rule matches, by its base name
\* or by its full relative path, is the path of no action of a plan, one-way
\* or two-way; it is neither copied nor deleted when only one side has it.
C16_IgnoreCompleteness ==
    \A sq \in Planned : \A j \in 1..Len(sq) :
        ~MatchesIgnore(sq[j].path, rule.ignore)

\* a/c is on one side only and matched by its base name alone; the plan acts
\* on other paths and leaves it out
C16_Witness ==
    /\ sPhase = "planned" /\ sPlan # <<>>
    /\ rule.ignore = {<<"c">>}
    /\ (srcTree[<<"a", "c">>] = Missing) # (tgtTree[<<"a", "c">>] = Missing)
    /\ ~Match(<<"c">>, <<"a", "c">>) /\ Match(<<"c">>, Base(<<"a", "c">>))

\* C17: after a push whose plan held no conflict has been executed through,
\* a push planned again over the trees it left is empty.
C17_PushTwiceEmpty ==
    (/\ sPhase = "replanned"
     /\ rule.mode = "push" /\ reMode = "push"
     /\ "conflict" \notin ActionTypes(sPlan))
    => rePlan = <<>>

\* C18: after a push whose plan held no conflict has been executed through,
\* a pull planned over the trees it left is empty.
C18_PushThenPullEmpty ==
    (/\ sPhase = "replanned"
     /\ rule.mode = "push" /\ reMode = "pull"
     /\ "conflict" \notin ActionTypes(sPlan))
    => rePlan = <<>>

\* the actions of a plan on a path, and a plan that holds for the path
\* exactly one action, of type t and direction d
ActionsOn(sq, p) == {j \in 1..Len(sq) : sq[j].path = p}
OneAction(sq, p, t, d) ==
    /\ Cardinality(ActionsOn(sq, p)) = 1
    /\ \A j \in ActionsOn(sq, p) : sq[j].type = t /\ sq[j].dir = d
NoAction(sq, p) == ActionsOn(sq, p) = {}

\* the one-way plan sq is what the case analysis says for the maps from, to
OneWayCases(sq, from, to, patterns, d) ==
    \A p \in PathSet :
        IF MatchesIgnore(p, patterns) \/ (from[p] = NoFile /\ to[p] = NoFile)
        THEN NoAction(sq, p)
        ELSE IF to[p] = NoFile
        THEN OneAction(sq, p, IF from[p].type = "directory" THEN "mkdir" ELSE "copy", d)
        ELSE IF from[p] = NoFile THEN OneAction(sq, p, "delete", d)
        ELSE IF from[p].type # to[p].type THEN OneAction(sq, p, "conflict", d)
        ELSE IF from[p].type = "regular" /\ Compare(from[p], to[p]) = "modified"
        THEN OneAction(sq, p, "copy", d)
        ELSE NoAction(sq, p)

\* C19: a one-way plan holds, for every path that is not ignored, one mkdir
\* or copy if only the from side has it, one delete if only the to side has
\* it, one conflict if the two sides differ in type, one copy if both have a
\* file and the comparer says modified, and nothing else.
C19_OneWayCases ==
    /\ (sPhase \notin {"off", "new"} /\ rule.mode = "push")
       => OneWayCases(sPlan, srcListed, tgtListed, rule.ignore, "s2t")
    /\ (sPhase \notin {"off", "new"} /\ rule.mode = "pull")
       => OneWayCases(sPlan, tgtListed, srcListed, rule.ignore, "t2s")

\* a push plan over a directory both sides have, a file only the source has
\* and a file only the target has
C19_Witness ==
    /\ sPhase = "planned" /\ rule.mode = "push" /\ rule.ignore = {}
    /\ srcListed[<<"a">>].type = "directory" /\ tgtListed[<<"a">>].type = "directory"
    /\ srcListed[<<"a", "c">>].type = "regular" /\ tgtListed[<<"a", "c">>] = NoFile
    /\ srcListed[<<"a", "d">>] = NoFile /\ tgtListed[<<"a", "d">>].type = "regular"
    /\ sPlan = <<MkAction("copy", "s2t", <<"a", "c">>),
                 MkAction("delete", "s2t", <<"a", "d">>)>>

\* the two-way plan sq is what the case analysis says for the maps src, tgt
TwoWayCases(sq, src, tgt, patterns, strategy) ==
    \A p \in PathSet :
        IF MatchesIgnore(p, patterns) \/ (src[p] = NoFile /\ tgt[p] = NoFile)
        THEN NoAction(sq, p)
        ELSE IF tgt[p] = NoFile
        THEN OneAction(sq, p, IF src[p].type = "directory" THEN "mkdir" ELSE "copy", "s2t")
        ELSE IF src[p] = NoFile
        THEN OneAction(sq, p, IF tgt[p].type = "directory" THEN "mkdir" ELSE "copy", "t2s")
        ELSE IF src[p].type # tgt[p].type THEN OneAction(sq, p, "conflict", "s2t")
        ELSE IF src[p].type = "regular" /\ Compare(src[p], tgt[p]) = "modified"
        THEN /\ Cardinality(ActionsOn(sq, p)) = 1
             /\ \A j \in ActionsOn(sq, p) : sq[j] = Resolve(strategy, p, src[p], tgt[p])
        ELSE NoAction(sq, p)

\* C20: a two-way plan holds, for every path of the union that is not
\* ignored, one copy or mkdir towards the target if only the source has it,
\* one copy or mkdir towards the source if only the target has it, one
\* conflict if the two sides differ in type, the action of the resolver if
\* both have a file and the comparer says modified, and nothing else.
C20_TwoWayCases ==
    (sPhase \notin {"off", "new"} /\ rule.mode = "two-way")
    => TwoWayCases(sPlan, srcListed, tgtListed, rule.ignore, rule.strategy)

\* a two-way plan under keep_newest: a/c is newer on the target and goes to
\* the source, a/d is only on the source and goes to the target
C20_Witness ==
    /\ sPhase = "planned" /\ rule.mode = "two-way"
    /\ rule.strategy = "keep_newest" /\ rule.ignore = {}
    /\ srcListed[<<"a", "c">>].type = "regular" /\ tgtListed[<<"a", "c">>].type = "regular"
    /\ Compare(srcListed[<<"a", "c">>], tgtListed[<<"a", "c">>]) = "modified"
    /\ tgtListed[<<"a", "c">>].mtime > srcListed[<<"a", "c">>].mtime
    /\ srcListed[<<"a", "d">>].type = "regular" /\ tgtListed[<<"a", "d">>] = NoFile
    /\ sPlan = <<MkAction("copy", "t2s", <<"a", "c">>),
                 MkAction("copy", "s2t", <<"a", "d">>)>>

\* ------------------------------------- claims on the comparer and resolver

Compared == cPhase \in {"compared", "resolved"}
Resolved == cPhase = "resolved"
BothFiles == cSrc # NoFile /\ cTgt # NoFile /\ IsFile(cSrc) /\ IsFile(cTgt)
SameContent ==
    /\ cSrc.size = cTgt.size
    /\ \/ cSrc.mtime = cTgt.mtime
       \/ cSrc.checksum # "" /\ cTgt.checksum # "" /\ cSrc.checksum = cTgt.checksum
       \/ cSrc.checksum = "" /\ cTgt.checksum = ""

C22_DirectoriesByExistence ==
    (Compared /\ IsDir(cSrc) /\ IsDir(cTgt)) => cDiff # "modified"

ResolvedType == cAction.type
ResolvedDir == cAction.dir
C24_ChecksumMatchSkips ==
    (/\ Resolved /\ cStrategy = "keep_newest"
     /\ cSrc # NoFile /\ cTgt # NoFile
     /\ cSrc.checksum # "" /\ cSrc.checksum = cTgt.checksum)
        => ResolvedType = "skip"

\* ------------------------------------------------ claims on the scheduler

Exited(l) == lpc[l] = "done"
Live(l) == lpc[l] \notin {"none", "done"}
InTick(l) == lpc[l] \in {"begin", "call", "inrun", "finish"}
Invokes(l) == lpc[l] # "inrun" /\ lpc'[l] = "inrun"
InStop(c) == cpc[c] \in {"stop_once", "stop_wait", "stop_mark"}
Names(b) == [j \in 1..Len(b) |-> b[j].name]

C26_StopReturns ==
    /\ []~fault
    /\ \A c \in Callers : InStop(c) ~> (cpc[c] = "idle")
\* two Stops that overlapped have both returned nil, after a cancellation
C26_Witness ==
    /\ \A c \in Callers : ret[c] = "stop_ok" /\ cpc[c] = "idle"
    /\ ctxDone /\ ~fault

\* C27: at most one tick is executed at a time (a tick that started and has
\* not completed), and at most one call of the runner is in progress
C27_OneTickAtATime ==
    /\ Cardinality({l \in Loops : InTick(l)}) <= 1
    /\ ticks.started - ticks.done \in {0, 1}
    /\ ticks.started - ticks.done = Cardinality({l \in Loops : InTick(l)})
    /\ \A l \in Loops : \A j \in 1..Len(batch[l]) :
           batch[l][j].out = "running" => (j = Len(batch[l]) /\ lpc[l] = "inrun")
\* the ticker has fired again while the second rule of a tick is running
C27_Witness ==
    \E l \in Loops : lpc[l] = "inrun" /\ tickReady[l] /\ Len(batch[l]) = 2

\* C28: in every tick the runner is invoked for the configured rule names in
\* order (for the empty name when none is configured), and a completed tick
\* has invoked it for every one of them, errors or not
C28_EveryRuleInOrder ==
    /\ \A l \in Loops :
          /\ Len(batch[l]) <= Len(EffRules)
          /\ Names(batch[l]) = SubSeq(EffRules, 1, Len(batch[l]))
          /\ lpc[l] = "finish" => Len(batch[l]) = Len(EffRules)
    /\ ticks.done > 0 => Names(lastBatch) = EffRules
\* a completed tick whose first rule failed and whose second rule was run
C28_Witness ==
    /\ ticks.done > 0 /\ Len(lastBatch) = 2
    /\ lastBatch[1].out = "err" /\ lastBatch[2].out = "nil"

\* C29: total_runs counts the ticks started (but for a tick that has not yet
\* entered its first critical section); successful_runs counts the
\* completed ticks in which no rule failed and failed_runs those in which a
\* rule failed; their sum is the number of completed ticks, at most total_runs
C29_Statistics ==
    /\ Status.TotalRuns =
           ticks.started - Cardinality({l \in Loops : lpc[l] = "begin"})
    /\ Status.SuccessfulRuns = ticks.ok
    /\ Status.FailedRuns = ticks.failed
    /\ Status.SuccessfulRuns + Status.FailedRuns = ticks.done
    /\ ticks.done <= Status.TotalRuns
\* a second tick has completed and has failed: its first rule failed, its
\* last did not
C29_Witness ==
    /\ Status.FailedRuns = 1 /\ Status.SuccessfulRuns = 1
    /\ Len(lastBatch) = 2 /\ lastBatch[1].out = "err" /\ lastBatch[2].out = "nil"

\* C30: once the context is cancelled a running loop exits, whether Stop is
\* called or not; after the exit Status reports not running and no tick
\* starts
C30_CancelExits ==
    /\ \A l \in Loops : (ctxDone /\ Live(l)) ~> Exited(l)
    /\ [](\A l \in Loops : Exited(l) => ~Status.Running)
    /\ [][(\E l \in Loops : Exited(l)) => ticks'.started = ticks.started]_vars
\* the loop has exited after ticks, cancelled, and no Stop was called
C30_Witness ==
    /\ ctxDone /\ Exited(1) /\ ticks.done > 0
    /\ ~stopOnce /\ \A c \in Callers : cpc[c] = "idle"

\* ------------------------------------------------- claims on the reporter

\* C31: the callback is never called by a thread that holds the reporter's
\* mutex, and whoever holds the mutex is inside a critical section that ends
\* without waiting for anything: a callback that calls back into the
\* reporter, and threads that report at once, do not deadlock
C31_CallbackOutsideLock ==
    /\ \A t \in RThreads : InCallback(t) => rmu # t
    /\ \A t \in RThreads :
          rmu = t => (Len(rstack[t]) > 0 /\ Top(t).at = "held")
    /\ \A t \in RThreads : \A j \in 1..Len(rstack[t]) - 1 :
          rstack[t][j].at = "callback"
\* a callback of one thread is inside its call back into the reporter,
\* holding the mutex, while the callback of the other thread waits for it
C31_Witness ==
    /\ Len(rstack[1]) = 2 /\ Top(1).at = "held" /\ rmu = 1
    /\ Len(rstack[2]) = 2 /\ Top(2).at = "lock"

\* --------------------------------------- further claims on plans and runs

\* the positions of a plan that hold an action of type ty
Of(sq, ty) == {j \in 1..Len(sq) : sq[j].type = ty}
IsConflict(a) == a.type = "conflict"
\* the sizes of the copy actions at the positions J: of the from side's
\* descriptor, or of the to side's when the from side has none
RECURSIVE CopySizes(_)
CopySizes(J) ==
    IF J = {} THEN 0
    ELSE LET j == CHOOSE x \in J : TRUE
             f == FromMap(srcListed, tgtListed, rule)[sPlan[j].path]
             t == ToMap(srcListed, tgtListed, rule)[sPlan[j].path]
         IN  (IF f # NoFile THEN f.size ELSE t.size) + CopySizes(J \ {j})

\* C32: in every plan total is the number of actions, to_copy, to_delete,
\* to_mkdir and conflicts are the numbers of actions of their type, the
\* conflicts list holds the conflict actions of the plan, and bytes_to_sync
\* is the sum over the copy actions of the size of the source descriptor (of
\* the target descriptor where there is no source descriptor)
C32_PlanStats ==
    sPhase \notin {"off", "new"} =>
        /\ sStats.total = Len(sPlan)
        /\ sStats.toCopy = Cardinality(Of(sPlan, "copy"))
        /\ sStats.toDelete = Cardinality(Of(sPlan, "delete"))
        /\ sStats.toMkdir = Cardinality(Of(sPlan, "mkdir"))
        /\ sStats.conflicts = Cardinality(Of(sPlan, "conflict"))
        /\ sStats.list = SelectSeq(sPlan, IsConflict)
        /\ sStats.bytes = CopySizes(Of(sPlan, "copy"))
\* a plan that copies a file of size 2 over one of size 1, and one more file
C32_Witness ==
    /\ sPhase = "planned" /\ sStats.toCopy = 2 /\ sStats.bytes = 3
    /\ \E j \in Of(sPlan, "copy") :
          /\ srcListed[sPlan[j].path].size = 2
          /\ tgtListed[sPlan[j].path].size = 1
    /\ rule.mode = "push"

\* ------------------------------------------- further claims on the scheduler

\* a batch of a tick that went through all rules and whose calls returned
Whole(b) ==
    /\ Len(b) = Len(EffRules)
    /\ \A j \in 1..Len(b) : b[j].out # "running"

\* C34: when a Stop has returned nil, no call of the runner is in progress
\* and none begins afterwards, and every tick that was started (one running
\* when Stop was called included) has completed its whole batch
C34_GracefulStop ==
    [][/\ stopReturned' =>
            /\ \A l \in Loops : ~InTick(l)' /\ (batch'[l] # <<>> => Whole(batch'[l]))
            /\ ticks'.started = ticks'.done
       /\ stopReturned => \A l \in Loops : ~Invokes(l)]_vars
\* a Stop called while a tick of two rules was running has returned nil,
\* without a cancellation, after the tick ran both rules
C34_Witness ==
    /\ \E c \in Callers : ret[c] = "stop_ok" /\ midStop[c] /\ cpc[c] = "idle"
    /\ stopReturned /\ ~ctxDone
    /\ ticks.done = 1 /\ Len(lastBatch) = 2

NothingRemoved ==
    \A p \in PathSet :
        /\ srcTree[p] # Missing => srcTree'[p] # Missing
        /\ tgtTree[p] # Missing => tgtTree'[p] # Missing

\* C37: a two-way plan holds no delete action, whatever the trees, the ignore
\* patterns and the conflict strategy, and no step of its execution removes
\* a path from either endpoint
C37_TwoWayNeverDeletes ==
    [][/\ (rule.mode = "two-way" /\ SyncPlan) => Of(sPlan', "delete") = {}
       /\ (rule.mode = "two-way" /\ SyncStep) => NothingRemoved
       /\ \A m \in Modes : (m = "two-way" /\ Replan(m)) => Of(rePlan', "delete") = {}]_vars
\* a two-way run is through that copied in both directions, over trees that
\* each held a path the other did not
C37_Witness ==
    /\ rule.mode = "two-way" /\ sPhase = "done"
    /\ \E i, j \in 1..Len(sPlan) :
          /\ sPlan[i].type = "copy" /\ sPlan[i].dir = "s2t"
          /\ sPlan[j].type = "copy" /\ sPlan[j].dir = "t2s"
          /\ srcListed[sPlan[j].path] = NoFile
          /\ tgtListed[sPlan[i].path] = NoFile

\* the directories above a path
Above(p) == {d \in PathSet : IsUnder(p, d)}
\* the action a is about to run and everything above its path is a
\* directory on the side it writes to
AncestorsThere(a) ==
    \A d \in Above(a.path) : ToTree(a, srcTree, tgtTree)[d].type = "directory"

\* C36: when a copy or a mkdir of a plan runs, in the plan's own order and
\* with nobody else changing the trees, every directory above its path is a
\* directory on the side it writes to
C36_ExecutableInOrder ==
    [][(SyncStep /\ ~vanished /\ sPlan[sIdx].type \in {"copy", "mkdir"})
          => AncestorsThere(sPlan[sIdx])]_vars
\* the same for plans that hold no conflict action
C36_ConflictFree ==
    [][(SyncStep /\ ~vanished /\ sPlan[sIdx].type \in {"copy", "mkdir"}
          /\ Of(sPlan, "conflict") = {})
          => AncestorsThere(sPlan[sIdx])]_vars

BetweenRules == hpc \in {"idle", "loop"}
\* the record that an attempt with these ends of PlanSync and ExecuteSync is
\* to leave
RecordOf(at) ==
    IF at.plan = "err" THEN MkRecord(at.rule, "failed", "plan_err")
    ELSE IF at.exec = "err" THEN MkRecord(at.rule, "failed", "exec_err")
    ELSE MkRecord(at.rule, "success", "")
\* the rules of the last Len(q) rows of the table are the names q
LastRows(q) ==
    /\ Len(history) >= Len(q)
    /\ \A j \in 1..Len(q) : history[Len(history) - Len(q) + j].rule = q[j]

\* C35: with a table that takes the rows, every rule the runner has
\* attempted has left one row, in the order of the attempts: success when
\* PlanSync and ExecuteSync both returned nil, failed with the error's text
\* otherwise; and when a call returns, it has left a row for every rule it
\* was to run, the rules after a failed one included
C35_OneRecordPerRule ==
    /\ BetweenRules =>
          /\ Len(history) = Len(attempted)
          /\ \A j \in 1..Len(history) : history[j] = RecordOf(attempted[j])
    /\ ~BetweenRules => Len(history) = Len(attempted) - (IF hpc = "exec" THEN 1 ELSE 0)
    /\ (hpc = "idle" /\ hret \in {"nil", "errors"}) =>
          /\ LastRows(hlist)
          /\ hret = "errors" <=>
                \E j \in 1..Len(hlist) :
                    history[Len(history) - Len(hlist) + j].status = "failed"
\* a call for all enabled rules has returned: the first of three rules
\* failed in planning, the second in execution, the third succeeded
C35_Witness ==
    /\ hpc = "idle" /\ hret = "errors" /\ Len(hlist) = 3 /\ hcalls = 1
    /\ history[1].error = "plan_err"
    /\ history[2].error = "exec_err"
    /\ history[3].status = "success"

\* ------------------------------------------------ claims on the PID file

\* C39: of the Write calls of distinct live processes on one path at most
\* one returns nil, and once all calls have returned the file names the
\* process whose call returned nil
C39_OneLiveDaemon ==
    /\ Cardinality({w \in Writers : pret[w] = "nil"}) <= 1
    /\ (\A w \in Writers : ppc[w] = "idle") =>
          \A w \in Writers : pret[w] = "nil" => pfile = w

\* -------------------------------------------------- claims on the daemon

\* C33: whenever Status can be called it reports running exactly when the
\* loop of the daemon's scheduler is alive; a Stop of a daemon that has a
\* scheduler does not fail; and a Start of a daemon whose loop has exited
\* (or that has none yet) returns nil
C33_StatusFollowsLoop ==
    /\ [](dmu = 0 => (dSched <=> \E l \in Loops : Live(l)))
    /\ [][\A c \in Callers :
            /\ (DaemonStatus(c) /\ dseen'[c] = "running") => \E l \in Loops : Live(l)
            /\ (DaemonStopCall(c) /\ dSched) => dret'[c] # "failed to stop scheduler"
            /\ (DaemonStart(c) /\ ~\E l \in Loops : Live(l)) => dret'[c] = "nil"]_vars

====
